---- MODULE Spec2Model ----
(***************************************************************************)
(* The runtime envelope of a compiled carmi instance (the base template):  *)
(* the batching / recalculation state machine around $setter, $startBatch, *)
(* $endBatch, $runInBatch, listeners and the batching strategy.            *)
(*                                                                         *)
(* JavaScript is single threaded and the handlers call user code (the      *)
(* listeners, the batching strategy, the function given to $runInBatch),   *)
(* which may call back into the instance.  The model therefore keeps the   *)
(* call stack explicitly: every action executes one straight-line block of *)
(* the function on top of the stack, up to its next call or its return.    *)
(* User operations enter only when the stack is empty.                     *)
(*                                                                         *)
(* The user code the instance calls is drawn from these behaviours:        *)
(*   - a listener performs up to MaxListenerOps operations, each a setter  *)
(*     call, $startBatch() or $endBatch(), and returns;                    *)
(*   - the function given to $runInBatch calls setters and returns;        *)
(*   - a batching strategy either calls $endBatch() itself before it       *)
(*     returns or schedules one later call of $endBatch();                 *)
(*   - $addListener, $removeListener, $setBatchingStrategy and $runInBatch *)
(*     are called by the user between runs of the instance's code.         *)
(* The setters are setA(v), v in 1..2, writing model.a.  In Spec no        *)
(* callback throws and $runInBatch is not nested; ErrorSpec adds a setter  *)
(* that throws, listeners and functions that throw, and functions that     *)
(* open batches of their own.                                              *)
(*                                                                         *)
(* Further parts of the program have a specification of their own, over    *)
(* variables the envelope leaves alone: the mutation library               *)
(* (LibrarySpec), recursiveMap / recursiveMapValues (LoopSpec),            *)
(* VMCompiler.buildProjectionData (CompilerSpec), the library function     *)
(* range (RangeSpec, FairRangeSpec) and the command line tool (CliSpec).   *)
(***************************************************************************)
EXTENDS Integers, Sequences, FiniteSets, TLC

\* ---------------------------------------------------------------- bounds
\* Setter calls issued over the life of the instance.
MaxCalls == 2
\* Instance operations one listener invocation performs.
MaxListenerOps == 1

\* ------------------------------------------------------------ input sets
Listeners == {"L1", "L2"}
\* "none": no strategy; "sync": the strategy calls this.$endBatch() before it
\* returns; "deferred": the strategy schedules a later call of $endBatch.
Strategies == {"none", "sync", "deferred"}
\* The exported setters' calls: setA(v) is set(['a'], v).
SetterCalls == {[func |-> "setA", arg |-> 1], [func |-> "setA", arg |-> 2]}
InitialModel == [a |-> 0]

VARIABLES
  model,            \* $model
  res,              \* the derived top-level values exposed on $res
  listeners,        \* $listeners, a Set in insertion order
  inBatch,          \* $inBatch
  batchPending,     \* $batchPending
  inRecalculate,    \* $inRecalculate
  batchingStrategy, \* $batchingStrategy
  stack,            \* the JavaScript call stack, innermost frame last
  deferred,         \* $endBatch calls a deferred strategy has scheduled
  issued,           \* history: the setter calls in the order they were issued
  applied,          \* history: ids of the setter calls in the order applied
  notified,         \* history: how often each listener was called in the
                    \* current run of the instance's code
  strategyCalls,    \* history: strategy invocations since the last $endBatch
  rib               \* history: what $runInBatch saw when it was called

runtimeVars == <<model, res, listeners, inBatch, batchPending, inRecalculate,
                 batchingStrategy, stack, deferred, issued, applied, notified,
                 strategyCalls, rib>>

\* The mutation library (set, push, splice, ensurePath) applied to a model.
VARIABLES
  jsModel,          \* $model, a tree of JavaScript values
  strictMode,       \* whether the generated code runs in strict mode
  jsThrown,         \* the last library call threw a TypeError
  jsBefore,         \* history: $model before the last library call
  jsOp,             \* history: the last library call and its arguments
  jsOps             \* history: the number of library calls made

libraryVars == <<jsModel, strictMode, jsThrown, jsBefore, jsOp, jsOps>>

\* One call of recursiveMap or recursiveMapValues.
VARIABLES
  loopSrc,          \* the keys of src
  loopTodo,         \* the keys src.forEach has still to visit
  loopResolved,     \* resolved
  loopRes,          \* res: the results stored so far
  loopStack,        \* the calls of func in progress, innermost last
  loopEvals,        \* history: how often func was evaluated for each key
  loopComputed,     \* history: what func returned for each key
  loopLast          \* history: the last loop(key) call that returned to func

loopVars == <<loopSrc, loopTodo, loopResolved, loopRes, loopStack, loopEvals,
              loopComputed, loopLast>>

\* One run of VMCompiler.buildProjectionData.
VARIABLES
  vmGetters,        \* this.getters, in the order of getRealGetters()
  vmSetters,        \* this.setters
  vmTables,         \* primitivesByHash, metaDataByHash, projectionsByHash
  vmTopLevels,      \* intermediateTopLevels, as far as it is built
  vmIntermediateSetters, \* intermediateSetters, as far as it is built
  vmData            \* the ProjectionData returned

compilerVars == <<vmGetters, vmSetters, vmTables, vmTopLevels,
                  vmIntermediateSetters, vmData>>

\* One call of the library function range.
VARIABLES
  rangeArgs,        \* the arguments of the call: end, start and step
  rangeStart,       \* the parameter start, after its default
  rangeStep,        \* the parameter step, after its default
  rangeVal,         \* val
  rangeRes,         \* res
  rangePc           \* the position in the body of range

rangeVars == <<rangeArgs, rangeStart, rangeStep, rangeVal, rangeRes, rangePc>>

\* Runs of the command line tool on one source with one set of options.
VARIABLES
  cliOptions,       \* options: no-cache, no-coverage, compiler, format
  cliCache,         \* the cache file
  cliCode,          \* code
  cliPc,            \* the position in run()
  cliOutputs,       \* history: what each finished run wrote as its output
  cliWrites         \* history: what each run wrote to the cache file

cliVars == <<cliOptions, cliCache, cliCode, cliPc, cliOutputs, cliWrites>>

\* The variables of the parts of the program the runtime envelope's state
\* machine does not touch.
otherVars == <<libraryVars, loopVars, compilerVars, rangeVars, cliVars>>

vars == <<runtimeVars, otherVars>>

\* --------------------------------------------------------------- helpers
NoCall == [func |-> "-", arg |-> 0, id |-> 0]
NoRib == [active |-> FALSE, idle |-> FALSE, from |-> 0,
          listenerCalled |-> FALSE]
NoneNotified == [l \in Listeners |-> 0]

\* A frame: the function, its position, and its locals: the call of a $setter
\* frame, the listener and the operations done so far of a user callback,
\* the callbacks a recalculate still has to call.  mark is history: the
\* number of calls issued when a recalculate began to notify.
Frame(fn, pc) == [fn |-> fn, pc |-> pc, call |-> NoCall, l |-> "-", n |-> 0,
                  todo |-> <<>>, mark |-> 0]
Top == stack[Len(stack)]
Pop == SubSeq(stack, 1, Len(stack) - 1)
ReplaceTop(f) == Append(Pop, f)
\* The notification counts after a return: a return to the user ends the run.
NotifiedAfterReturn == IF Len(stack) = 1 THEN NoneNotified ELSE notified
Running(fn, pc) == stack # <<>> /\ Top.fn = fn /\ Top.pc = pc

Reverse(q) == [i \in 1..Len(q) |-> q[Len(q) + 1 - i]]
Ids(q) == [i \in 1..Len(q) |-> q[i].id]
SeqToSet(q) == {q[i] : i \in 1..Len(q)}
Without(q, x) == SelectSeq(q, LAMBDA y : y # x)

\* applySetter(object, key, value) with a defined value: object[key] = value
applySetter(object, key, value) == [object EXCEPT ![key] = value]

\* func.apply($res, args) of a queued or direct setter call: setA(v) runs
\* set(['a'], v), which is applySetter($model, 'a', v) for a one-step path.
Apply(c, m) == applySetter(m, "a", c.arg)

\* The derivation of the top-level values: double := a * 2.
Derive(m) == [double |-> m.a * 2]

\* $batchPending.forEach visits the queue from its first element to its last.
\* (Faulty variant: the queue drained from its last element.)
DrainOrderLIFO(q) == Reverse(q)
DrainOrder(q) == q

\* $listeners.forEach calls every registered callback, in insertion order.
\* (Faulty variant: the first callback is skipped.)
NotifyOrderSkipsFirst(ls) == IF ls = <<>> THEN ls ELSE Tail(ls)
NotifyOrder(ls) == ls

RECURSIVE ApplyAll(_, _)
ApplyAll(q, m) == IF q = <<>> THEN m ELSE ApplyAll(Tail(q), Apply(Head(q), m))

\* A setter whose func throws: spliceA(0, 0) runs splice(['a', 0], 0).  While
\* $model.a is a number other than 0, ensurePath returns at once (the value is
\* truthy), arr is that number and arr.splice is not a function: a TypeError
\* is thrown and $model is as it was.  setA never throws.
ThrowingCalls == {[func |-> "spliceA", arg |-> 0]}
Throws(c, m) == c.func = "spliceA" /\ m.a # 0

\* The calls $batchPending.forEach applies before func.apply throws for the
\* first time (all of them when none throws): forEach stops at an exception.
RECURSIVE DrainedBeforeThrow(_, _)
DrainedBeforeThrow(q, m) ==
  IF q = <<>> \/ Throws(Head(q), m)
    THEN <<>>
    ELSE <<Head(q)>> \o DrainedBeforeThrow(Tail(q), Apply(Head(q), m))
DrainThrows(q, m) == Len(DrainedBeforeThrow(q, m)) < Len(q)

\* if ($inBatch || $inRecalculate || $batchingStrategy)
\* (Faulty variants: $inRecalculate, or $inBatch, left out of the test.)
ShouldQueueNoRecalc == inBatch \/ batchingStrategy # "none"
ShouldQueueNoBatch == inRecalculate \/ batchingStrategy # "none"
ShouldQueue == inBatch \/ inRecalculate \/ batchingStrategy # "none"

\* if ((!$inBatch && !$inRecalculate) && $batchingStrategy)
\* (Faulty variant: the strategy called for every queued call.)
ShouldInvokeStrategyAlways == batchingStrategy # "none"
ShouldInvokeStrategy ==
  (~inBatch /\ ~inRecalculate) /\ batchingStrategy # "none"

\* if ($batchPending.length) in $endBatch
\* (Faulty variant: $endBatch recalculates whatever the queue holds.)
EndBatchDrainsAlways == TRUE
EndBatchDrains == batchPending # <<>>

\* if ($batchPending.length) at the end of recalculate
\* (Faulty variant: recalculate never drains what its listeners queued.)
RecalculateLeavesQueue == FALSE
RecalculateDrains == batchPending # <<>>

\* ------------------------------------------------------------------ Init
\* The mutation library is not in use.
LibraryUnused ==
  /\ jsModel = "-"
  /\ strictMode = FALSE
  /\ jsThrown = FALSE
  /\ jsBefore = "-"
  /\ jsOp = "-"
  /\ jsOps = 0

\* No recursiveMap is running.
LoopUnused ==
  /\ loopSrc = {}
  /\ loopTodo = <<>>
  /\ loopResolved = <<>>
  /\ loopRes = <<>>
  /\ loopStack = <<>>
  /\ loopEvals = <<>>
  /\ loopComputed = <<>>
  /\ loopLast = "-"

\* buildProjectionData is not running.
CompilerUnused ==
  /\ vmGetters = <<>>
  /\ vmSetters = <<>>
  /\ vmTables = "-"
  /\ vmTopLevels = <<>>
  /\ vmIntermediateSetters = <<>>
  /\ vmData = "-"

\* range is not running.
RangeUnused ==
  /\ rangeArgs = "-"
  /\ rangeStart = 0
  /\ rangeStep = 0
  /\ rangeVal = 0
  /\ rangeRes = <<>>
  /\ rangePc = "-"

\* The command line tool is not in use.
CliUnused ==
  /\ cliOptions = "-"
  /\ cliCache = "-"
  /\ cliCode = "-"
  /\ cliPc = "-"
  /\ cliOutputs = <<>>
  /\ cliWrites = <<>>

OthersUnused ==
  LibraryUnused /\ LoopUnused /\ CompilerUnused /\ RangeUnused /\ CliUnused

\* The state of $NAME when its variables are set up and it is about to run
\* its own recalculate() and return $res: no listener can be registered yet.
Init ==
  /\ model = InitialModel
  /\ res = [double |-> 0]
  /\ listeners = <<>>
  /\ inBatch = FALSE
  /\ batchPending = <<>>
  /\ inRecalculate = FALSE
  /\ batchingStrategy \in Strategies
  /\ stack = <<Frame("$NAME", "recalculate")>>
  /\ deferred = 0
  /\ issued = <<>>
  /\ applied = <<>>
  /\ notified = NoneNotified
  /\ strategyCalls = 0
  /\ rib = NoRib
  /\ OthersUnused

\* ------------------------------------------------- the instance factory
Construct ==
  /\ Running("$NAME", "recalculate")
  /\ stack' = Append(ReplaceTop([Top EXCEPT !.pc = "return"]),
                     Frame("recalculate", "start"))
  /\ UNCHANGED otherVars
  /\ UNCHANGED <<model, res, listeners, inBatch, batchPending, inRecalculate,
                 batchingStrategy, deferred, issued, applied, notified,
                 strategyCalls, rib>>

ConstructReturn ==
  /\ Running("$NAME", "return")
  /\ stack' = Pop
  /\ notified' = NotifiedAfterReturn
  /\ UNCHANGED otherVars
  /\ UNCHANGED <<model, res, listeners, inBatch, batchPending, inRecalculate,
                 batchingStrategy, deferred, issued, applied, 
                 strategyCalls, rib>>

\* ------------------------------------------------------------ recalculate
recalculateStart ==
  /\ Running("recalculate", "start")
  /\ IF inBatch
       THEN /\ stack' = Pop
            /\ UNCHANGED <<inRecalculate, res>>
       ELSE /\ inRecalculate' = TRUE
            /\ res' = Derive(model)
            /\ stack' = ReplaceTop([Top EXCEPT !.pc = "listeners",
                                               !.todo = NotifyOrder(listeners),
                                               !.mark = Len(issued)])
  /\ UNCHANGED otherVars
  /\ UNCHANGED <<model, listeners, inBatch, batchPending, batchingStrategy,
                 deferred, issued, applied, notified, strategyCalls, rib>>

\* $listeners.forEach(callback => callback()): the next callback is called.
recalculateNotify ==
  /\ Running("recalculate", "listeners")
  /\ Top.todo # <<>>
  /\ notified' = [notified EXCEPT ![Head(Top.todo)] = @ + 1]
  /\ stack' = Append(ReplaceTop([Top EXCEPT !.todo = Tail(@)]),
                     [Frame("listener", "body") EXCEPT !.l = Head(Top.todo)])
  /\ UNCHANGED otherVars
  /\ UNCHANGED <<model, res, listeners, inBatch, batchPending, inRecalculate,
                 batchingStrategy, deferred, issued, applied, strategyCalls,
                 rib>>

recalculateExit ==
  /\ Running("recalculate", "listeners")
  /\ Top.todo = <<>>
  /\ inRecalculate' = FALSE
  /\ IF RecalculateDrains
       THEN stack' = Append(ReplaceTop([Top EXCEPT !.pc = "return"]),
                            Frame("$endBatch", "start"))
       ELSE stack' = Pop
  /\ UNCHANGED otherVars
  /\ UNCHANGED <<model, res, listeners, inBatch, batchPending,
                 batchingStrategy, deferred, issued, applied, notified,
                 strategyCalls, rib>>

recalculateReturn ==
  /\ Running("recalculate", "return")
  /\ stack' = Pop
  /\ UNCHANGED otherVars
  /\ UNCHANGED <<model, res, listeners, inBatch, batchPending, inRecalculate,
                 batchingStrategy, deferred, issued, applied, notified,
                 strategyCalls, rib>>

\* ---------------------------------------------------------------- $setter
setter ==
  /\ Running("$setter", "start")
  /\ IF ShouldQueue
       THEN /\ batchPending' = Append(batchPending, Top.call)
            /\ IF ShouldInvokeStrategy
                 THEN /\ inBatch' = TRUE
                      /\ strategyCalls' = strategyCalls + 1
                      /\ stack' = Append(
                           ReplaceTop([Top EXCEPT !.pc = "returnQueued"]),
                           Frame("strategy", "start"))
                 ELSE /\ stack' = ReplaceTop([Top EXCEPT !.pc = "returnQueued"])
                      /\ UNCHANGED <<inBatch, strategyCalls>>
            /\ UNCHANGED <<model, applied>>
       ELSE /\ ~Throws(Top.call, model)
            /\ model' = Apply(Top.call, model)
            /\ applied' = Append(applied, Top.call.id)
            /\ stack' = Append(ReplaceTop([Top EXCEPT !.pc = "returnDirect"]),
                               Frame("recalculate", "start"))
            /\ UNCHANGED <<batchPending, inBatch, strategyCalls>>
  /\ UNCHANGED otherVars
  /\ UNCHANGED <<res, listeners, inRecalculate, batchingStrategy, deferred,
                 issued, notified, rib>>

setterReturn ==
  /\ stack # <<>> /\ Top.fn = "$setter"
  /\ Top.pc \in {"returnQueued", "returnDirect"}
  /\ stack' = Pop
  /\ notified' = NotifiedAfterReturn
  /\ UNCHANGED otherVars
  /\ UNCHANGED <<model, res, listeners, inBatch, batchPending, inRecalculate,
                 batchingStrategy, deferred, issued, applied, strategyCalls,
                 rib>>

\* --------------------------------------------------- the batching strategy
\* $batchingStrategy.call($res) with a strategy that ends the batch itself.
strategySync ==
  /\ Running("strategy", "start")
  /\ batchingStrategy = "sync"
  /\ stack' = Append(ReplaceTop([Top EXCEPT !.pc = "return"]),
                     Frame("$endBatch", "start"))
  /\ UNCHANGED otherVars
  /\ UNCHANGED <<model, res, listeners, inBatch, batchPending, inRecalculate,
                 batchingStrategy, deferred, issued, applied, notified,
                 strategyCalls, rib>>

\* ... with a strategy that schedules $endBatch (a timer, a microtask).
strategyDefer ==
  /\ Running("strategy", "start")
  /\ batchingStrategy = "deferred"
  /\ deferred' = deferred + 1
  /\ stack' = Pop
  /\ UNCHANGED otherVars
  /\ UNCHANGED <<model, res, listeners, inBatch, batchPending, inRecalculate,
                 batchingStrategy, issued, applied, notified, strategyCalls,
                 rib>>

strategyReturn ==
  /\ Running("strategy", "return")
  /\ stack' = Pop
  /\ UNCHANGED otherVars
  /\ UNCHANGED <<model, res, listeners, inBatch, batchPending, inRecalculate,
                 batchingStrategy, deferred, issued, applied, notified,
                 strategyCalls, rib>>

\* The scheduled call of a deferred strategy runs: it calls $endBatch.
deferredEndBatch ==
  /\ stack = <<>>
  /\ deferred > 0
  /\ deferred' = deferred - 1
  /\ stack' = <<Frame("$endBatch", "start")>>
  /\ UNCHANGED otherVars
  /\ UNCHANGED <<model, res, listeners, inBatch, batchPending, inRecalculate,
                 batchingStrategy, issued, applied, notified, strategyCalls,
                 rib>>

\* --------------------------------------------------------------- $endBatch
endBatch ==
  /\ Running("$endBatch", "start")
  /\ inBatch' = FALSE
  /\ strategyCalls' = 0
  /\ IF EndBatchDrains
       THEN /\ Len(applied) <= MaxCalls
            /\ ~DrainThrows(DrainOrder(batchPending), model)
            /\ model' = ApplyAll(DrainOrder(batchPending), model)
            /\ applied' = applied \o Ids(DrainOrder(batchPending))
            /\ batchPending' = <<>>
            /\ stack' = Append(ReplaceTop([Top EXCEPT !.pc = "return"]),
                               Frame("recalculate", "start"))
       ELSE /\ stack' = Pop
            /\ UNCHANGED <<model, applied, batchPending>>
  /\ UNCHANGED otherVars
  /\ UNCHANGED <<res, listeners, inRecalculate, batchingStrategy, deferred,
                 issued, notified, rib>>

endBatchReturn ==
  /\ Running("$endBatch", "return")
  /\ stack' = Pop
  /\ notified' = NotifiedAfterReturn
  /\ UNCHANGED otherVars
  /\ UNCHANGED <<model, res, listeners, inBatch, batchPending, inRecalculate,
                 batchingStrategy, deferred, issued, applied, 
                 strategyCalls, rib>>

\* -------------------------------------------------------------- $runInBatch
\* $res.$startBatch(); func();
runInBatch ==
  /\ Running("$runInBatch", "start")
  /\ inBatch' = TRUE
  /\ stack' = Append(ReplaceTop([Top EXCEPT !.pc = "endBatch"]),
                     Frame("func", "body"))
  /\ UNCHANGED otherVars
  /\ UNCHANGED <<model, res, listeners, batchPending, inRecalculate,
                 batchingStrategy, deferred, issued, applied, notified,
                 strategyCalls, rib>>

\* $res.$endBatch();
runInBatchEnd ==
  /\ Running("$runInBatch", "endBatch")
  /\ stack' = Append(ReplaceTop([Top EXCEPT !.pc = "return"]),
                     Frame("$endBatch", "start"))
  /\ UNCHANGED otherVars
  /\ UNCHANGED <<model, res, listeners, inBatch, batchPending, inRecalculate,
                 batchingStrategy, deferred, issued, applied, notified,
                 strategyCalls, rib>>

runInBatchReturn ==
  /\ Running("$runInBatch", "return")
  /\ stack' = Pop
  /\ rib' = IF Len(stack) = 1 THEN NoRib ELSE rib
  /\ notified' = NotifiedAfterReturn
  /\ UNCHANGED otherVars
  /\ UNCHANGED <<model, res, listeners, inBatch, batchPending, inRecalculate,
                 batchingStrategy, deferred, issued, applied, strategyCalls>>

\* ------------------------------------------------------------- user code
\* A call of an exported setter: the call is issued and $setter is entered
\* with it.
IssueSetter(c) ==
  /\ Len(issued) < MaxCalls
  /\ issued' = Append(issued, c)
  /\ stack' = Append(
       IF stack = <<>> THEN <<>> ELSE ReplaceTop([Top EXCEPT !.n = @ + 1]),
       [Frame("$setter", "start") EXCEPT
          !.call = [func |-> c.func, arg |-> c.arg, id |-> Len(issued) + 1]])

\* The function given to $runInBatch: it calls setters and returns.
funcSetter(c) ==
  /\ Running("func", "body")
  /\ IssueSetter(c)
  /\ UNCHANGED otherVars
  /\ UNCHANGED <<model, res, listeners, inBatch, batchPending, inRecalculate,
                 batchingStrategy, deferred, applied, notified, strategyCalls,
                 rib>>

funcReturn ==
  /\ Running("func", "body")
  /\ stack' = Pop
  /\ UNCHANGED otherVars
  /\ UNCHANGED <<model, res, listeners, inBatch, batchPending, inRecalculate,
                 batchingStrategy, deferred, issued, applied, notified,
                 strategyCalls, rib>>

\* A listener: it may call setters, $startBatch and $endBatch, and returns.
listenerSetter(c) ==
  /\ Running("listener", "body")
  /\ Top.n < MaxListenerOps
  /\ IssueSetter(c)
  /\ rib' = IF rib.active THEN [rib EXCEPT !.listenerCalled = TRUE] ELSE rib
  /\ UNCHANGED otherVars
  /\ UNCHANGED <<model, res, listeners, inBatch, batchPending, inRecalculate,
                 batchingStrategy, deferred, applied, notified, strategyCalls>>

listenerStartBatch ==
  /\ Running("listener", "body")
  /\ Top.n < MaxListenerOps
  /\ inBatch' = TRUE
  /\ stack' = ReplaceTop([Top EXCEPT !.n = @ + 1])
  /\ UNCHANGED otherVars
  /\ UNCHANGED <<model, res, listeners, batchPending, inRecalculate,
                 batchingStrategy, deferred, issued, applied, notified,
                 strategyCalls, rib>>

listenerEndBatch ==
  /\ Running("listener", "body")
  /\ Top.n < MaxListenerOps
  /\ stack' = Append(ReplaceTop([Top EXCEPT !.n = @ + 1]),
                     Frame("$endBatch", "start"))
  /\ UNCHANGED otherVars
  /\ UNCHANGED <<model, res, listeners, inBatch, batchPending, inRecalculate,
                 batchingStrategy, deferred, issued, applied, notified,
                 strategyCalls, rib>>

listenerReturn ==
  /\ Running("listener", "body")
  /\ stack' = Pop
  /\ UNCHANGED otherVars
  /\ UNCHANGED <<model, res, listeners, inBatch, batchPending, inRecalculate,
                 batchingStrategy, deferred, issued, applied, notified,
                 strategyCalls, rib>>

\* The user of the instance, between two runs of the instance's code.
AtTopLevel == stack = <<>>

userSetter(c) ==
  /\ AtTopLevel
  /\ IssueSetter(c)
  /\ UNCHANGED otherVars
  /\ UNCHANGED <<model, res, listeners, inBatch, batchPending, inRecalculate,
                 batchingStrategy, deferred, applied, notified, strategyCalls,
                 rib>>

userStartBatch ==
  /\ AtTopLevel
  /\ inBatch' = TRUE
  /\ UNCHANGED otherVars
  /\ UNCHANGED <<model, res, listeners, batchPending, inRecalculate,
                 batchingStrategy, stack, deferred, issued, applied, notified,
                 strategyCalls, rib>>

userEndBatch ==
  /\ stack = <<>>
  /\ stack' = <<Frame("$endBatch", "start")>>
  /\ UNCHANGED otherVars
  /\ UNCHANGED <<model, res, listeners, inBatch, batchPending, inRecalculate,
                 batchingStrategy, deferred, issued, applied, notified,
                 strategyCalls, rib>>

userRunInBatch ==
  /\ AtTopLevel
  /\ stack' = <<Frame("$runInBatch", "start")>>
  /\ rib' = [active |-> TRUE, idle |-> ~inBatch /\ ~inRecalculate,
             from |-> Len(issued), listenerCalled |-> FALSE]
  /\ UNCHANGED otherVars
  /\ UNCHANGED <<model, res, listeners, inBatch, batchPending, inRecalculate,
                 batchingStrategy, deferred, issued, applied, notified,
                 strategyCalls>>

addListener(l) ==
  /\ AtTopLevel
  /\ l \notin SeqToSet(listeners)
  /\ listeners' = Append(listeners, l)
  /\ UNCHANGED otherVars
  /\ UNCHANGED <<model, res, inBatch, batchPending, inRecalculate,
                 batchingStrategy, stack, deferred, issued, applied, notified,
                 strategyCalls, rib>>

removeListener(l) ==
  /\ AtTopLevel
  /\ l \in SeqToSet(listeners)
  /\ listeners' = Without(listeners, l)
  /\ UNCHANGED otherVars
  /\ UNCHANGED <<model, res, inBatch, batchPending, inRecalculate,
                 batchingStrategy, stack, deferred, issued, applied, notified,
                 strategyCalls, rib>>

setBatchingStrategy(s) ==
  /\ AtTopLevel
  /\ s # batchingStrategy
  /\ batchingStrategy' = s
  /\ UNCHANGED otherVars
  /\ UNCHANGED <<model, res, listeners, inBatch, batchPending, inRecalculate,
                 stack, deferred, issued, applied, notified, strategyCalls,
                 rib>>

\* ------------------------------------------------------------------ Next
Next ==
  \/ Construct
  \/ ConstructReturn
  \/ recalculateStart
  \/ recalculateNotify
  \/ recalculateExit
  \/ recalculateReturn
  \/ setter
  \/ setterReturn
  \/ strategySync
  \/ strategyDefer
  \/ strategyReturn
  \/ deferredEndBatch
  \/ endBatch
  \/ endBatchReturn
  \/ runInBatch
  \/ runInBatchEnd
  \/ runInBatchReturn
  \/ \E c \in SetterCalls : funcSetter(c)
  \/ funcReturn
  \/ \E c \in SetterCalls : listenerSetter(c)
  \/ listenerStartBatch
  \/ listenerEndBatch
  \/ listenerReturn
  \/ \E c \in SetterCalls : userSetter(c)
  \/ userStartBatch
  \/ userEndBatch
  \/ userRunInBatch
  \/ \E l \in Listeners : addListener(l)
  \/ \E l \in Listeners : removeListener(l)
  \/ \E s \in Strategies : setBatchingStrategy(s)

Spec == Init /\ [][Next]_vars

\* ------------------------------------------------------- state predicates
\* The instance modes of the state machine over (inBatch, inRecalculate).
Idle == ~inBatch /\ ~inRecalculate
Batching == inBatch /\ ~inRecalculate
Recalculating == ~inBatch /\ inRecalculate
\* No code of the instance is running.
AtRest == stack = <<>>
Settled == AtRest /\ Idle /\ batchPending = <<>> /\ Len(applied) = Len(issued)
AppliedIds == SeqToSet(applied)
\* The frame that called the function on top of the stack.
Caller == stack[Len(stack) - 1]
\* The function on top of the stack has just been called from `fn`.
CalledFrom(fn) == Len(stack) >= 2 /\ Caller.fn = fn

\* C1: setter dispatch.  The block of $setter appends the call to
\* batchPending and leaves the model alone when inBatch, inRecalculate or a
\* batching strategy is set; otherwise it applies the call to the model at
\* once, calls recalculate and leaves batchPending as it was; the queue, empty
\* whenever the direct branch is taken, is empty again when that call returns.
C1_SetterDispatch ==
  /\ [](Running("$setter", "start") /\ Idle /\ batchingStrategy = "none"
          => batchPending = <<>>)
  /\ [](Running("$setter", "returnDirect") => batchPending = <<>>)
  /\ [][Running("$setter", "start") =>
          IF inBatch \/ inRecalculate \/ batchingStrategy # "none"
            THEN /\ batchPending' = Append(batchPending, Top.call)
                 /\ model' = model
                 /\ applied' = applied
            ELSE /\ model' = [model EXCEPT !.a = Top.call.arg]
                 /\ applied' = Append(applied, Top.call.id)
                 /\ batchPending' = batchPending
                 /\ Top'.fn = "recalculate"]_vars

\* C1 witness: a call a listener made is queued during the recalculate of a
\* call that was applied directly.
C1_Witness ==
  /\ Running("$setter", "returnQueued")
  /\ stack[1].fn = "$setter" /\ stack[1].pc = "returnDirect"
  /\ inRecalculate
  /\ applied = <<1>> /\ Ids(batchPending) = <<2>>

\* C2: the calls are applied to the model in the order they were issued: the
\* applied calls are always the first issued calls, in their order.
C2_AppliedInIssueOrder ==
  /\ Len(applied) <= Len(issued)
  /\ applied = [i \in 1..Len(applied) |-> i]

\* C2 witness: a call of the user, applied directly, and the different call
\* a listener made during its recalculate have both been applied.
C2_Witness ==
  /\ applied = <<1, 2>>
  /\ issued[1].arg # issued[2].arg
  /\ Running("recalculate", "start") /\ CalledFrom("$endBatch")
  /\ stack[1].fn = "$setter" /\ stack[1].pc = "returnDirect"

\* C3: batching transparency.  With no code running and no batch open, the
\* model is the initial model with all issued calls applied in issue order,
\* however they were batched, and the top-level values are derived from it.
C3_BatchingTransparent ==
  (AtRest /\ ~inBatch) =>
     /\ batchPending = <<>>
     /\ model = ApplyAll(issued, InitialModel)
     /\ res = Derive(model)

\* C3 witness: two different calls were drained from one batch.
C3_Witness ==
  /\ AtRest /\ ~inBatch
  /\ Len(issued) = 2 /\ issued[1].arg = 2 /\ issued[2].arg = 1
  /\ applied = <<1, 2>>
  /\ listeners = <<>>
  /\ batchingStrategy = "none"

\* C4: a setter call issued by a listener (every call issued after a
\* recalculate began to notify is one) is queued and not applied while the
\* recalculate that called the listener is still notifying, and the queue is
\* empty once that recalculate has drained it and is about to return.
C4_ListenerCallsQueuedThenDrained ==
  /\ \A k \in 1..Len(stack) :
       (stack[k].fn = "recalculate" /\ stack[k].pc = "listeners") =>
          \A i \in (stack[k].mark + 1)..Len(issued) : i \notin AppliedIds
  /\ Running("recalculate", "return") => batchPending = <<>>

\* C5: $runInBatch(f) called from Idle, f issuing at least one setter call and
\* the listeners none: when it returns every registered listener has been
\* called exactly once by it, and whenever a listener runs inside it every
\* call f issued has been applied.
C5_RunInBatchNotifiesOnce ==
  /\ (Running("$runInBatch", "return") /\ rib.idle
        /\ Len(issued) > rib.from /\ ~rib.listenerCalled)
       => \A l \in SeqToSet(listeners) : notified[l] = 1
  /\ (rib.active /\ rib.idle /\ ~rib.listenerCalled
        /\ \E k \in 1..Len(stack) : stack[k].fn = "listener")
       => \A i \in (rib.from + 1)..Len(issued) : i \in AppliedIds

\* C5 witness: $runInBatch, called from Idle with two listeners registered,
\* is about to return after its function issued two calls.
C5_Witness ==
  /\ Running("$runInBatch", "return") /\ rib.idle
  /\ Len(issued) = rib.from + 2 /\ ~rib.listenerCalled
  /\ Len(listeners) = 2
  /\ notified = [l \in Listeners |-> 1]
  /\ applied = <<1, 2>>

\* The first setter call of the instance was applied directly (un-batched)
\* and is about to return to the user.
FirstDirectCallReturns ==
  /\ Len(stack) = 1 /\ Running("$setter", "returnDirect")
  /\ Len(issued) = 1

\* C6 as stated: a listener is called once by the initial settle, the
\* recalculate $NAME runs before it returns, and every registered listener
\* is called once by the first un-batched setter call: twice in total.
C6_ListenerNotifiedTwice ==
  /\ Running("$NAME", "return") => \E l \in Listeners : notified[l] = 1
  /\ FirstDirectCallReturns =>
        \A l \in SeqToSet(listeners) : notified[l] = 1

\* C6 amended: while $NAME runs its initial recalculate no listener is
\* registered and none is called, and no listener is called before a first
\* setter call is applied; the first un-batched setter call calls every
\* registered listener exactly once: once in total.
C6_ListenerNotifiedOnce ==
  /\ (stack # <<>> /\ stack[1].fn = "$NAME") =>
        (listeners = <<>> /\ notified = NoneNotified)
  /\ applied = <<>> => notified = NoneNotified
  /\ FirstDirectCallReturns =>
        \A l \in SeqToSet(listeners) : notified[l] = 1

\* C6 witness: the first setter call returns with both listeners registered.
C6_Witness ==
  /\ FirstDirectCallReturns
  /\ Len(listeners) = 2
  /\ notified = [l \in Listeners |-> 1]

\* C7: whenever a listener is called, inRecalculate is true and inBatch is
\* false.
C7_ListenersOnlyWhileRecalculating ==
  (Running("listener", "body") /\ Top.n = 0) => Recalculating

\* The step of $endBatch taken in the Batching state.
EndBatchWhenBatching == Running("$endBatch", "start") /\ Batching
\* The step calls recalculate.
CallsRecalculate ==
  /\ Len(stack') = Len(stack) + 1
  /\ Top'.fn = "recalculate" /\ Top'.pc = "start"

\* C8 as stated: every $endBatch in the Batching state clears inBatch,
\* applies the queue in FIFO order, empties it and calls recalculate, an
\* empty queue included.
C8_EndBatchAlwaysRecalculates ==
  [][EndBatchWhenBatching =>
       /\ inBatch' = FALSE
       /\ applied' = applied \o Ids(batchPending)
       /\ model' = ApplyAll(batchPending, model)
       /\ batchPending' = <<>>
       /\ CallsRecalculate]_vars

\* C8 amended: $endBatch in the Batching state clears inBatch; with a
\* non-empty queue it applies the queue in FIFO order, empties it and calls
\* recalculate exactly once, and that recalculate is never skipped by the
\* inBatch guard; with an empty queue it returns without calling recalculate
\* and without notifying a listener.
C8_EndBatchRecalculatesIfQueued ==
  /\ [](Running("recalculate", "start") => ~inBatch)
  /\ [][Running("$endBatch", "return") => stack' = Pop]_vars
  /\ [][EndBatchWhenBatching =>
          /\ inBatch' = FALSE
          /\ applied' = applied \o Ids(batchPending)
          /\ model' = ApplyAll(batchPending, model)
          /\ batchPending' = <<>>
          /\ IF batchPending # <<>>
               THEN CallsRecalculate
               ELSE stack' = Pop /\ notified' = notified /\ res' = res]_vars

\* C8 witness: $endBatch, called by the user in a batch that queued two user
\* calls, has applied both and called recalculate.
C8_Witness ==
  /\ Running("recalculate", "start") /\ Len(stack) = 2
  /\ Caller.fn = "$endBatch"
  /\ applied = <<1, 2>> /\ batchPending = <<>> /\ ~inBatch
  /\ listeners = <<>>
  /\ batchingStrategy = "none"

\* C9: with a strategy installed a setter call made in Idle sets inBatch and
\* calls the strategy once; a setter call made while inBatch is set is queued
\* without calling it; between two $endBatch calls the strategy is called at
\* most once.
C9_StrategyOncePerBatch ==
  /\ [](strategyCalls <= 1)
  /\ [][(Running("$setter", "start") /\ Idle /\ batchingStrategy # "none") =>
          /\ inBatch' = TRUE
          /\ strategyCalls' = 1
          /\ batchPending' = Append(batchPending, Top.call)
          /\ Len(stack') = Len(stack) + 1
          /\ Top'.fn = "strategy"]_vars
  /\ [][(Running("$setter", "start") /\ inBatch) =>
          /\ strategyCalls' = strategyCalls
          /\ batchPending' = Append(batchPending, Top.call)
          /\ Len(stack') = Len(stack)
          /\ Top'.pc = "returnQueued"]_vars

\* C9 witness: in the batch a deferred strategy opened, a second call has
\* been queued and the strategy was called once.
C9_Witness ==
  /\ Running("$setter", "returnQueued")
  /\ batchingStrategy = "deferred" /\ inBatch
  /\ strategyCalls = 1 /\ deferred = 1
  /\ Len(batchPending) = 2

\* -------------------------------------------------------------- liveness
\* The code that is running: one step of the function on top of the stack.
\* A callback of the user returns after finitely many operations.
CodeStep ==
  \/ Construct \/ ConstructReturn
  \/ recalculateStart \/ recalculateNotify \/ recalculateExit
  \/ recalculateReturn
  \/ setter \/ setterReturn
  \/ strategySync \/ strategyDefer \/ strategyReturn
  \/ endBatch \/ endBatchReturn
  \/ runInBatch \/ runInBatchEnd \/ runInBatchReturn
  \/ (\E c \in SetterCalls : funcSetter(c)) \/ funcReturn
  \/ (\E c \in SetterCalls : listenerSetter(c))
  \/ listenerStartBatch \/ listenerEndBatch \/ listenerReturn

\* JavaScript runs the code on the stack to completion; the call a deferred
\* strategy scheduled is run; the user ends every batch that is open.
FairSpec ==
  /\ Spec
  /\ WF_vars(CodeStep)
  /\ WF_vars(deferredEndBatch)
  /\ WF_vars(inBatch /\ userEndBatch)

\* C10: the instance is settled again and again: Idle, nothing running,
\* batchPending empty and every issued call applied.
C10_EventuallySettled == []<>Settled

\* C10 witness: the instance is settled after a deferred strategy's batch of
\* two calls was ended.
C10_Witness ==
  /\ Settled
  /\ batchingStrategy = "deferred"
  /\ applied = <<1, 2>>
  /\ deferred = 0

(***************************************************************************)
(* The mutation library: set, push, splice, ensurePath, getAssignableObject *)
(* and applySetter, applied to a model that is a tree of JavaScript values. *)
(*                                                                         *)
(* A value is undefined, null, a number, a boolean, a string, an object    *)
(* (its own properties) or an array (its elements, where a hole reads      *)
(* undefined, and its other properties).  The model is a tree: no two      *)
(* locations hold the same object, so a reference to a container is the    *)
(* path that leads to it and a write through the reference is a write at   *)
(* that path.  A hole of an array is not told apart from an element that  *)
(* is undefined.  An evaluation that throws yields the value TypeError.    *)
(* A write to a property of a number, boolean or string does nothing in    *)
(* sloppy mode and throws in strict mode; the template does not fix the    *)
(* mode, so strictMode is chosen when the instance is built.               *)
(***************************************************************************)
\* ---------------------------------------------------------------- bounds
\* Library calls made on one model.
MaxLibraryCalls == 1

\* ---------------------------------------------------- JavaScript values
JsValue(t, prim, elems, props) ==
  [t |-> t, prim |-> prim, elems |-> elems, props |-> props]
EmptyProps == [n \in {} |-> ""]
Primitive(t, prim) == JsValue(t, prim, <<>>, EmptyProps)
Undefined == Primitive("undefined", "")
Null == Primitive("null", "")
Zero == Primitive("number", "0")
Five == Primitive("number", "5")
Seven == Primitive("number", "7")
False == Primitive("boolean", "false")
EmptyString == Primitive("string", "")
\* The outcome of an evaluation that threw.
TypeError == Primitive("TypeError", "")
Obj(props) == JsValue("object", "", <<>>, props)
Arr(elems) == JsValue("array", "", elems, EmptyProps)
EmptyObject == Obj(EmptyProps)
EmptyArray == Arr(<<>>)

\* if (value): the values JavaScript converts to true.
Truthy(v) ==
  \/ v.t \in {"object", "array"}
  \/ v.t = "number" /\ v.prim # "0"
  \/ v.t = "boolean" /\ v.prim = "true"
  \/ v.t = "string" /\ v.prim # ""
IsContainer(v) == v.t \in {"object", "array"}
\* Reading a property of undefined or null throws.
Nullish(v) == v.t \in {"undefined", "null", "TypeError"}

\* A key of a path: typ is typeof key, prop the property name it converts
\* to, idx the array index it denotes (-1 when it is not an array index) and
\* int its conversion to an integer (what Array.prototype.splice uses).
Key(typ, prop, idx, int) == [typ |-> typ, prop |-> prop, idx |-> idx, int |-> int]
KeyA == Key("string", "a", -1, 0)
KeyB == Key("string", "b", -1, 0)
DecimalString == <<"0", "1", "2", "3", "4", "5", "6", "7", "8", "9">>
\* The number n >= 0 used as a key.
Index(n) == Key("number", DecimalString[n + 1], n, n)
KeyMinusOne == Key("number", "-1", -1, -1)
KeyOneAndHalf == Key("number", "1.5", -1, 1)

Max(a, b) == IF a >= b THEN a ELSE b
Min(a, b) == IF a <= b THEN a ELSE b
Front(q) == SubSeq(q, 1, Len(q) - 1)
Last(q) == q[Len(q)]

\* object[key]
Get(v, k) ==
  CASE Nullish(v) -> TypeError
    [] v.t = "array" /\ k.idx >= 0 ->
         IF k.idx < Len(v.elems) THEN v.elems[k.idx + 1] ELSE Undefined
    [] IsContainer(v) ->
         IF k.prop \in DOMAIN v.props THEN v.props[k.prop] ELSE Undefined
    [] OTHER -> Undefined

\* object[key] = x on a container: an array grows to hold the index.
Put(v, k, x) ==
  IF v.t = "array" /\ k.idx >= 0
    THEN [v EXCEPT !.elems =
            [i \in 1..Max(Len(v.elems), k.idx + 1) |->
               IF i = k.idx + 1 THEN x
               ELSE IF i <= Len(v.elems) THEN v.elems[i] ELSE Undefined]]
    ELSE [v EXCEPT !.props =
            [n \in DOMAIN v.props \cup {k.prop} |->
               IF n = k.prop THEN x ELSE v.props[n]]]

\* delete object[key] on a container: an array keeps its length.
Delete(v, k) ==
  IF v.t = "array" /\ k.idx >= 0
    THEN IF k.idx < Len(v.elems)
           THEN [v EXCEPT !.elems[k.idx + 1] = Undefined]
           ELSE v
    ELSE [v EXCEPT !.props = [n \in DOMAIN v.props \ {k.prop} |-> v.props[n]]]

\* path.reduce((agg, p) => agg[p], v)
RECURSIVE Reduce(_, _)
Reduce(path, v) ==
  IF path = <<>> THEN v ELSE Reduce(Tail(path), Get(v, Head(path)))

\* The value v with the container at `path` replaced by `new`: what the
\* holder of v sees after a write through a reference to that container.
RECURSIVE Replace(_, _, _)
Replace(v, path, new) ==
  IF path = <<>> THEN new
  ELSE Put(v, Head(path), Replace(Get(v, Head(path)), Tail(path), new))

\* What a library function leaves: the model, and whether it threw.
Returned(m) == [m |-> m, thrown |-> FALSE]
Threw(m) == [m |-> m, thrown |-> TRUE]

\* getAssignableObject(path, index)
getAssignableObject(m, path, index) == Reduce(SubSeq(path, 1, index), m)

\* ref[key] = x, where ref is the object at `at` in the model m.
Assign(m, at, k, x) ==
  LET ref == Reduce(at, m)
  IN  CASE Nullish(ref) -> Threw(m)
        [] IsContainer(ref) -> Returned(Replace(m, at, Put(ref, k, x)))
        [] OTHER -> IF strictMode THEN Threw(m) ELSE Returned(m)

\* if (assignable[lastObjectKey]) return
\* (Faulty variant: the early return is lost.)
ExistsNever(v) == FALSE
Exists(v) == Truthy(v)

\* lastType === 'number' ? [] : {}
\* (Faulty variant: an array only for an array index.)
ContainerForIndex(k) == IF k.idx >= 0 THEN EmptyArray ELSE EmptyObject
ContainerFor(k) == IF k.typ = "number" THEN EmptyArray ELSE EmptyObject

\* ensurePath(path)
\* (Faulty variant: assignable is looked up before the recursive call, so it
\* is the value the recursive call may have replaced by a fresh container.)
RECURSIVE ensurePathStale(_, _)
ensurePathStale(m, path) ==
  IF Len(path) < 2 THEN Returned(m)
  ELSE
    LET lastObjectKey == path[Len(path) - 1]
        at == SubSeq(path, 1, Len(path) - 2)
        stale == getAssignableObject(m, path, Len(path) - 2)
        r == IF Len(path) > 2 THEN ensurePathStale(m, Front(path))
             ELSE Returned(m)
    IN  IF r.thrown THEN r
        ELSE IF Nullish(stale) THEN Threw(r.m)
        ELSE IF IsContainer(stale)
          THEN IF Exists(Get(stale, lastObjectKey)) THEN r
               ELSE Assign(r.m, at, lastObjectKey, ContainerFor(Last(path)))
        ELSE IF strictMode THEN Threw(r.m) ELSE r

RECURSIVE ensurePath(_, _)
ensurePath(m, path) ==
  IF Len(path) < 2 THEN Returned(m)
  ELSE
    LET r == IF Len(path) > 2 THEN ensurePath(m, Front(path)) ELSE Returned(m)
        lastObjectKey == path[Len(path) - 1]
        at == SubSeq(path, 1, Len(path) - 2)
        assignable == getAssignableObject(r.m, path, Len(path) - 2)
    IN  IF r.thrown THEN r
        ELSE IF Nullish(assignable) THEN Threw(r.m)
        ELSE IF Exists(Get(assignable, lastObjectKey)) THEN r
        ELSE Assign(r.m, at, lastObjectKey, ContainerFor(Last(path)))

\* applySetter(object, key, value), where object is the object at `at`
\* (Faulty variant: undefined is stored instead of the key being deleted.)
applySetterAlwaysAssigns(m, at, k, value) == Assign(m, at, k, value)
applySetterAt(m, at, k, value) ==
  LET object == Reduce(at, m)
  IN  IF value = Undefined
        THEN CASE Nullish(object) -> Threw(m)
               [] IsContainer(object) ->
                    Returned(Replace(m, at, Delete(object, k)))
               [] OTHER -> Returned(m)
        ELSE Assign(m, at, k, value)

\* set(path, value)
set(m, path, value) ==
  LET r == ensurePath(m, path)
  IN  IF r.thrown THEN r
      ELSE applySetterAt(r.m, Front(path), Last(path), value)

\* arr.splice(key, len, ...newItems) on the elements of an array
\* (Faulty variant: the removal starts one element late.)
ArraySpliceLate(elems, start, len, newItems) ==
  SubSeq(elems, 1, Min(start + 1, Len(elems))) \o newItems
    \o SubSeq(elems, Min(start + 1, Len(elems)) + len + 1, Len(elems))
ArraySplice(elems, start, len, newItems) ==
  LET from == IF start < 0 THEN Max(Len(elems) + start, 0)
              ELSE Min(start, Len(elems))
      count == Min(Max(len, 0), Len(elems) - from)
  IN  SubSeq(elems, 1, from) \o newItems
        \o SubSeq(elems, from + count + 1, Len(elems))

\* splice(pathWithKey, len, ...newItems)
splice(m, pathWithKey, len, newItems) ==
  LET r == ensurePath(m, pathWithKey)
      key == Last(pathWithKey)
      path == Front(pathWithKey)
      arr == getAssignableObject(r.m, path, Len(path))
  IN  IF r.thrown THEN r
      ELSE IF arr.t # "array" THEN Threw(r.m)
      ELSE Returned(Replace(r.m, path,
             [arr EXCEPT !.elems = ArraySplice(@, key.int, len, newItems)]))

\* push(path, value)
push(m, path, value) ==
  LET r == ensurePath(m, Append(path, Index(0)))
      arr == getAssignableObject(r.m, path, Len(path))
  IN  IF r.thrown THEN r
      ELSE IF arr.t # "array" THEN Threw(r.m)
      ELSE splice(r.m, Append(path, Index(Len(arr.elems))), 0, <<value>>)

\* ------------------------------------------------------------ input sets
\* The models the instance is built on.
InitialModels ==
  { EmptyObject,
    Obj([a |-> Zero]), Obj([a |-> Null]), Obj([a |-> False]),
    Obj([a |-> EmptyString]), Obj([a |-> Five]),
    Obj([a |-> Obj([b |-> Zero])]),
    Obj([a |-> Arr(<<Five, Seven, Five>>)]),
    Obj([a |-> Obj([b |-> Arr(<<Seven>>)])]) }
\* The keys a path continues with after its first key.
NextKeys == {KeyB, Index(0), KeyMinusOne, KeyOneAndHalf}
\* The paths of the library calls: one to three keys.
Paths ==
  {<<KeyA>>} \cup {<<KeyA, k>> : k \in NextKeys}
    \cup {<<KeyA, k, l>> : k, l \in NextKeys}
\* The paths a list may be at.
ListPaths == {p \in Paths : Len(p) <= 2}
SetValues == {Undefined, Seven}
PushValues == {Seven}
SpliceStarts == {Index(k) : k \in 0..3}
SpliceLengths == {0, 1, 2}
\* The locations of a model that are compared before and after a call.
AllKeys == NextKeys \cup {KeyA, Index(1), Index(2), Index(3)}
Locations ==
  {<<k>> : k \in AllKeys} \cup {<<k, l>> : k \in {KeyA}, l \in AllKeys}
    \cup {<<k, l, n>> : k \in {KeyA}, l \in NextKeys, n \in AllKeys}

NoOp == [name |-> "-", path |-> <<>>, value |-> Undefined, len |-> 0]

\* The runtime envelope is not in use.
RuntimeUnused ==
  /\ model = InitialModel
  /\ res = [double |-> 0]
  /\ listeners = <<>>
  /\ inBatch = FALSE
  /\ batchPending = <<>>
  /\ inRecalculate = FALSE
  /\ batchingStrategy = "none"
  /\ stack = <<>>
  /\ deferred = 0
  /\ issued = <<>>
  /\ applied = <<>>
  /\ notified = NoneNotified
  /\ strategyCalls = 0
  /\ rib = NoRib

LibraryInit ==
  /\ jsModel \in InitialModels
  /\ strictMode \in BOOLEAN
  /\ jsThrown = FALSE
  /\ jsBefore = jsModel
  /\ jsOp = NoOp
  /\ jsOps = 0
  /\ RuntimeUnused
  /\ LoopUnused
  /\ CompilerUnused
  /\ RangeUnused
  /\ CliUnused

\* One call of a library function on the model: r is what it leaves.
LibraryCall(name, path, value, len, r) ==
  /\ jsOps < MaxLibraryCalls
  /\ jsOps' = jsOps + 1
  /\ jsBefore' = jsModel
  /\ jsOp' = [name |-> name, path |-> path, value |-> value, len |-> len]
  /\ jsModel' = r.m
  /\ jsThrown' = r.thrown
  /\ UNCHANGED strictMode
  /\ UNCHANGED <<runtimeVars, loopVars, compilerVars, rangeVars, cliVars>>

callSet(path, value) ==
  LibraryCall("set", path, value, 0, set(jsModel, path, value))

callPush(path, value) ==
  LibraryCall("push", path, value, 0, push(jsModel, path, value))

callSplice(pathWithKey, len) ==
  LibraryCall("splice", pathWithKey, Undefined, len,
              splice(jsModel, pathWithKey, len, <<>>))

callEnsurePath(path) ==
  LibraryCall("ensurePath", path, Undefined, 0, ensurePath(jsModel, path))

LibraryNext ==
  \/ \E p \in Paths, v \in SetValues : callSet(p, v)
  \/ \E p \in ListPaths, v \in PushValues : callPush(p, v)
  \/ \E p \in ListPaths, k \in SpliceStarts, n \in SpliceLengths :
       callSplice(Append(p, k), n)
  \/ \E p \in Paths : callEnsurePath(p)

LibrarySpec == LibraryInit /\ [][LibraryNext]_vars

\* ------------------------------------------------------- state predicates
\* The value at a location of a model; undefined where there is none.
At(m, q) == LET v == Reduce(q, m) IN IF v = TypeError THEN Undefined ELSE v
\* key in object: the container has the key.
Has(v, k) ==
  IF v.t = "array" /\ k.idx >= 0
    THEN k.idx < Len(v.elems) /\ v.elems[k.idx + 1] # Undefined
    ELSE IsContainer(v) /\ k.prop \in DOMAIN v.props
PropertyNames(p) == [i \in 1..Len(p) |-> p[i].prop]
IsPrefix(p, q) ==
  Len(p) <= Len(q) /\ SubSeq(PropertyNames(q), 1, Len(p)) = PropertyNames(p)
\* The location q is on the path p: above it, at it or below it.
OnPath(q, p) == IsPrefix(q, p) \/ IsPrefix(p, q)
\* The intermediate locations of a path: its proper, non-empty prefixes.
Intermediate(p) == {SubSeq(p, 1, i) : i \in 1..(Len(p) - 1)}
\* Every intermediate location of the path holds a container or nothing.
ContainersOrAbsent(m, p) ==
  \A q \in Intermediate(p) : IsContainer(At(m, q)) \/ At(m, q) = Undefined
\* The last library call was `name`.
Called(name) == jsOp.name = name
\* The elements of the list at a location; none when nothing is there.
ElementsAt(m, q) == IF At(m, q).t = "array" THEN At(m, q).elems ELSE <<>>
ListOrAbsent(m, q) == At(m, q).t = "array" \/ At(m, q) = Undefined
\* The value before the call is still at q after it: a primitive is the
\* same value, a container is a container of the same kind (its members are
\* locations of their own).
Kept(q) ==
  IF IsContainer(At(jsBefore, q))
    THEN At(jsModel, q).t = At(jsBefore, q).t
    ELSE At(jsModel, q) = At(jsBefore, q)
\* ensurePath materialized a container at q, where nothing was.
Materialized(q) == At(jsBefore, q) = Undefined /\ IsContainer(At(jsModel, q))
\* The key that follows the location q on the path p.
KeyAfter(p, q) == p[Len(q) + 1]
NonNegativeInteger(k) == k.typ = "number" /\ k.idx >= 0

\* C11: set(path, value) on a model whose intermediate locations along path
\* are containers or absent does not throw; with a defined value the model
\* read at path is the value, with undefined the last key is no longer in
\* its container; and every location that is not on path reads as before.
C11_SetWritesPathOnly ==
  (Called("set") /\ ContainersOrAbsent(jsBefore, jsOp.path)) =>
    /\ ~jsThrown
    /\ jsOp.value # Undefined => At(jsModel, jsOp.path) = jsOp.value
    /\ jsOp.value = Undefined =>
         ~Has(At(jsModel, Front(jsOp.path)), Last(jsOp.path))
    /\ \A q \in Locations :
         ~OnPath(q, jsOp.path) => At(jsModel, q) = At(jsBefore, q)

\* set(path, undefined) removed a key that its container had.
C11_Witness ==
  /\ Called("set") /\ ContainersOrAbsent(jsBefore, jsOp.path)
  /\ jsOp.value = Undefined
  /\ Len(jsOp.path) >= 2
  /\ Has(At(jsBefore, Front(jsOp.path)), Last(jsOp.path))
  /\ ~Has(At(jsModel, Front(jsOp.path)), Last(jsOp.path))

\* The list at the path of a push is the previous list with the value
\* appended.
PushAppended ==
  /\ At(jsModel, jsOp.path).t = "array"
  /\ At(jsModel, jsOp.path).elems =
       Append(ElementsAt(jsBefore, jsOp.path), jsOp.value)
\* splice(path + [k], n) on a list that has n elements from index k on
\* removes exactly those.
SpliceRemoved ==
  LET path == Front(jsOp.path)
      k == Last(jsOp.path).int
      old == ElementsAt(jsBefore, path)
  IN  (At(jsBefore, path).t = "array" /\ k + jsOp.len <= Len(old)) =>
        /\ ~jsThrown
        /\ At(jsModel, path).t = "array"
        /\ At(jsModel, path).elems =
             SubSeq(old, 1, k) \o SubSeq(old, k + jsOp.len + 1, Len(old))

\* C12 as stated: push(path, value) on a model whose value at path is a list
\* or absent appends the value to the list (the empty list if it was
\* absent); splice(path + [k], n) removes exactly the n elements from index
\* k on.
C12_PushAppendsSpliceRemoves ==
  /\ (Called("push") /\ ListOrAbsent(jsBefore, jsOp.path)) => PushAppended
  /\ Called("splice") => SpliceRemoved

\* C12 as amended: the same, for a push on a model whose intermediate
\* locations along path are containers or absent.
C12_PushAppendsOnContainers ==
  /\ (Called("push") /\ ListOrAbsent(jsBefore, jsOp.path)
        /\ ContainersOrAbsent(jsBefore, jsOp.path)) => PushAppended
  /\ Called("splice") => SpliceRemoved

\* A push appended to a list of three elements.
C12_Witness ==
  /\ Called("push")
  /\ Len(ElementsAt(jsBefore, jsOp.path)) = 3
  /\ Len(ElementsAt(jsModel, jsOp.path)) = 4
  /\ ElementsAt(jsModel, jsOp.path)[4] = jsOp.value

\* C13 as stated: a container ensurePath materializes at an intermediate
\* location is an array if and only if the next key of the path is a
\* non-negative integer.
C13_ArrayIffNonNegativeInteger ==
  Called("ensurePath") =>
    \A q \in Intermediate(jsOp.path) :
      Materialized(q) =>
        (At(jsModel, q).t = "array"
           <=> NonNegativeInteger(KeyAfter(jsOp.path, q)))

\* C13 as amended: ... is an array if and only if the next key of the path
\* is a number, negative and non-integer numbers included, and an object
\* for every other key.
C13_ArrayIffNumber ==
  Called("ensurePath") =>
    \A q \in Intermediate(jsOp.path) :
      Materialized(q) =>
        /\ At(jsModel, q).t = "array"
             <=> KeyAfter(jsOp.path, q).typ = "number"
        /\ At(jsModel, q).t = "object"
             <=> KeyAfter(jsOp.path, q).typ # "number"

\* ensurePath materialized an array for a next key that is a negative number.
C13_Witness ==
  /\ Called("ensurePath")
  /\ \E q \in Intermediate(jsOp.path) :
       /\ Materialized(q)
       /\ KeyAfter(jsOp.path, q) = KeyMinusOne
       /\ At(jsModel, q) = EmptyArray

\* C14 as stated: every value present before ensurePath(path) is present
\* and unchanged after it, and a path of fewer than two keys changes nothing.
C14_PresentValuesKept ==
  Called("ensurePath") =>
    /\ \A q \in Locations : At(jsBefore, q) # Undefined => Kept(q)
    /\ Len(jsOp.path) < 2 => jsModel = jsBefore

\* C14 as amended: ... except a value that converts to false (0, false, the
\* empty string, null) at an intermediate location of path, which ensurePath
\* replaces by a fresh container.
C14_TruthyValuesKept ==
  Called("ensurePath") =>
    /\ \A q \in Locations :
         (/\ At(jsBefore, q) # Undefined
          /\ Truthy(At(jsBefore, q)) \/ q \notin Intermediate(jsOp.path))
           => Kept(q)
    /\ \A q \in Intermediate(jsOp.path) :
         (At(jsBefore, q) # Undefined /\ ~Truthy(At(jsBefore, q)))
           => IsContainer(At(jsModel, q))
    /\ Len(jsOp.path) < 2 => jsModel = jsBefore

\* ensurePath replaced a present 0 at an intermediate location and kept a
\* container above it.
C14_Witness ==
  /\ Called("ensurePath")
  /\ Len(jsOp.path) = 3
  /\ At(jsBefore, Front(jsOp.path)) = Zero
  /\ IsContainer(At(jsModel, Front(jsOp.path)))
  /\ IsContainer(At(jsBefore, <<Head(jsOp.path)>>))

\* C15: ensurePath(p) applied to the model ensurePath(p) left leaves it as
\* it is.
C15_EnsurePathIdempotent ==
  Called("ensurePath") => ensurePath(jsModel, jsOp.path).m = jsModel

\* ensurePath materialized two containers; a second call changes nothing.
C15_Witness ==
  /\ Called("ensurePath")
  /\ Len(jsOp.path) = 3
  /\ \A q \in Intermediate(jsOp.path) : Materialized(q)

(***************************************************************************)
(* recursiveMap and recursiveMapValues: src.forEach calls loopFunction for *)
(* every key of src, and func receives loop = loopFunction bound to the    *)
(* same resolved and res, which it may call for any key, its own and keys  *)
(* that src does not have included.  The user function is drawn from: it   *)
(* calls loop up to MaxLoopCalls times, for any keys, and returns 1 plus   *)
(* the sum of the numbers loop gave it (undefined adds nothing).           *)
(***************************************************************************)
\* ---------------------------------------------------------------- bounds
\* The keys func may ask for are 1..MaxKeys.
MaxKeys == 3
\* Calls of loop in one evaluation of func.
MaxLoopCalls == 2

LoopKeys == 1..MaxKeys
\* A value func returns or loop gives back: undefined, or a number.
LoopUndefined == [defined |-> FALSE, val |-> 0]
LoopNumber(n) == [defined |-> TRUE, val |-> n]
\* res[key]
ResAt(r, key) == IF key \in DOMAIN r THEN LoopNumber(r[key]) ELSE LoopUndefined
\* The keys of a set in the order forEach visits them.
RECURSIVE InOrder(_)
InOrder(S) ==
  IF S = {} THEN <<>>
  ELSE LET k == CHOOSE x \in S : \A y \in S : x <= y
       IN  <<k>> \o InOrder(S \ {k})
\* An evaluation of func(src[key], key, context, loop) in progress: the
\* loop calls it has made and the sum of what they gave it.
FuncFrame(key) == [key |-> key, calls |-> 0, acc |-> 0]
InProgress(key) == \E i \in 1..Len(loopStack) : loopStack[i].key = key
NoLoopCall == [key |-> 0, state |-> "-", ret |-> LoopUndefined]

\* var res = []; var resolved = src.map(x => false); src.forEach(...)
LoopInit ==
  /\ loopSrc \in SUBSET LoopKeys
  /\ loopTodo = InOrder(loopSrc)
  /\ loopResolved = [k \in LoopKeys |-> FALSE]
  /\ loopRes = <<>>
  /\ loopStack = <<>>
  /\ loopEvals = [k \in LoopKeys |-> 0]
  /\ loopComputed = <<>>
  /\ loopLast = NoLoopCall
  /\ RuntimeUnused
  /\ LibraryUnused
  /\ CompilerUnused
  /\ RangeUnused
  /\ CliUnused

\* if (!resolved[key])
\* (Faulty variant: the marker is not consulted.)
ShouldEvaluateAlways(key) == TRUE
ShouldEvaluate(key) == ~loopResolved[key]

\* loopFunction up to its call of func: resolved[key] = true; func(...)
EnterFunc(key, callers) ==
  /\ loopResolved' = [loopResolved EXCEPT ![key] = TRUE]
  /\ loopEvals' = [loopEvals EXCEPT ![key] = @ + 1]
  /\ loopStack' = Append(callers, FuncFrame(key))

\* src.forEach((val, key) => loopFunction(resolved, res, func, src, context,
\* key)): the next key of src, between two evaluations of func.
forEachStep ==
  /\ loopStack = <<>>
  /\ loopTodo # <<>>
  /\ loopTodo' = Tail(loopTodo)
  /\ IF ShouldEvaluate(Head(loopTodo))
       THEN EnterFunc(Head(loopTodo), <<>>)
       ELSE UNCHANGED <<loopResolved, loopEvals, loopStack>>
  /\ UNCHANGED <<loopSrc, loopRes, loopComputed, loopLast>>
  /\ UNCHANGED <<runtimeVars, libraryVars, compilerVars, rangeVars, cliVars>>

\* func calls loop(key): loopFunction evaluates func for the key, or returns
\* res[key] at once.
funcLoop(key) ==
  /\ loopStack # <<>>
  /\ loopStack[Len(loopStack)].calls < MaxLoopCalls
  /\ LET caller == [loopStack[Len(loopStack)] EXCEPT !.calls = @ + 1]
         callers == Append(SubSeq(loopStack, 1, Len(loopStack) - 1), caller)
         ret == ResAt(loopRes, key)
     IN  IF ShouldEvaluate(key)
           THEN /\ EnterFunc(key, callers)
                /\ UNCHANGED loopLast
           ELSE /\ loopStack' = [callers EXCEPT ![Len(callers)].acc =
                                   @ + ret.val]
                /\ loopLast' = [key |-> key,
                                state |-> IF InProgress(key) THEN "inProgress"
                                          ELSE "finished",
                                ret |-> ret]
                /\ UNCHANGED <<loopResolved, loopEvals>>
  /\ UNCHANGED <<loopSrc, loopTodo, loopRes, loopComputed>>
  /\ UNCHANGED <<runtimeVars, libraryVars, compilerVars, rangeVars, cliVars>>

\* func returns: res[key] = ...; return res[key], to func's caller if the
\* call came from a loop(key).
funcReturns ==
  /\ loopStack # <<>>
  /\ LET frame == loopStack[Len(loopStack)]
         value == 1 + frame.acc
         callers == SubSeq(loopStack, 1, Len(loopStack) - 1)
         stored == [k \in DOMAIN loopRes \cup {frame.key} |->
                      IF k = frame.key THEN value ELSE loopRes[k]]
     IN  /\ loopRes' = stored
         /\ loopComputed' = [k \in DOMAIN loopComputed \cup {frame.key} |->
                               IF k = frame.key THEN value ELSE loopComputed[k]]
         /\ IF callers = <<>>
              THEN /\ loopStack' = callers
                   /\ UNCHANGED loopLast
              ELSE /\ loopStack' = [callers EXCEPT ![Len(callers)].acc =
                                      @ + ResAt(stored, frame.key).val]
                   /\ loopLast' = [key |-> frame.key, state |-> "evaluated",
                                   ret |-> ResAt(stored, frame.key)]
  /\ UNCHANGED <<loopSrc, loopTodo, loopResolved, loopEvals>>
  /\ UNCHANGED <<runtimeVars, libraryVars, compilerVars, rangeVars, cliVars>>

LoopNext ==
  \/ forEachStep
  \/ \E key \in LoopKeys : funcLoop(key)
  \/ funcReturns

LoopSpec == LoopInit /\ [][LoopNext]_vars

\* C16: in one recursiveMap / recursiveMapValues call func is evaluated at
\* most once per key, whatever keys its evaluations ask loop for; a loop(key)
\* call for a key whose evaluation is in progress evaluates nothing and
\* returns undefined, and one for a finished key returns what func returned
\* for that key.
C16_AtMostOncePerKey ==
  /\ \A k \in LoopKeys : loopEvals[k] <= 1
  /\ loopLast.state = "inProgress" => loopLast.ret = LoopUndefined
  /\ loopLast.state \in {"finished", "evaluated"} =>
       loopLast.ret = LoopNumber(loopComputed[loopLast.key])

\* An evaluation of func asked loop for its own key, which is in progress,
\* after asking it for a key that was finished, while being asked by another.
C16_Witness ==
  /\ Len(loopStack) = 2
  /\ loopLast.state = "inProgress"
  /\ loopLast.key = loopStack[2].key
  /\ loopStack[2].acc > 0
  /\ \A k \in LoopKeys : InProgress(k) => loopEvals[k] = 1

(***************************************************************************)
(* VMCompiler.buildProjectionData: the getters and setters of a program    *)
(* are serialized into the hash tables primitivesByHash, metaDataByHash    *)
(* and projectionsByHash, and the tables are packed into ProjectionData.   *)
(*                                                                         *)
(* An expression node is an integer, another primitive, a Token or an      *)
(* Expression (its head Token and its arguments).  options.debug is off,   *)
(* so a projection has no source, and `trace` expressions are left out.    *)
(* A hash table is the sequence of its entries in insertion order, which   *)
(* is the order of Object.keys.  exprHash, the packing of an index with    *)
(* its tag, canBeStoredInRef, pathMatches and topLevelToIndex are code of  *)
(* other files; they are modelled as the specification describes them:     *)
(* the hash of a value is its canonical serialization.                     *)
(***************************************************************************)
\* ---------------------------------------------------------------- bounds
\* The top-level getters of a program.
MaxGetters == 2

\* ------------------------------------------------------ expression nodes
VmNode(kind, type, n, prim) ==
  [kind |-> kind, type |-> type, n |-> n, prim |-> prim, args |-> <<>>,
   invalidates |-> FALSE, path |-> <<>>, id |-> -1]
VmInt(n) == VmNode("int", "", n, "")
\* A primitive that is not an integer, by its source text.
VmPrim(p) == VmNode("prim", "", 0, p)
VmString(s) == VmPrim("'" \o s \o "'")
VmNull == VmPrim("null")
VmUndefined == VmPrim("undefined")
VmNaN == VmPrim("NaN")
\* new Token(type)
Token(type) == VmNode("token", type, 0, "")
\* An Expression: [token, ...args]
Expression(token, args) == [token EXCEPT !.kind = "expr", !.args = args]
IsToken(e) == e.kind = "token"
IsExpression(e) == e.kind = "expr"
\* e.$type: only a Token has it.
TypeOf(e) == IF IsToken(e) THEN e.type ELSE ""

\* _.defaultTo(value, d): d for undefined, null and NaN.
defaultTo(value, d) ==
  IF value \in {VmUndefined, VmNull, VmNaN} THEN d ELSE value
\* args[i] of a JavaScript array: undefined past its end.
ArgAt(args, i) == IF i <= Len(args) THEN args[i] ELSE VmUndefined

\* exprHash(value): a structural hash, the canonical serialization.
exprHash(value) == ToString(value)
\* rt.canBeStoredInRef(n): a non-negative integer below the inline ceiling.
InlineCeiling == 16777216
canBeStoredInRef(n) == n >= 0 /\ n < InlineCeiling
\* rt.packPrimitiveIndex, rt.packProjectionIndex: tag | index.
PrimitiveTag == 16777216
ProjectionTag == 33554432
packPrimitiveIndex(index) == IF index < 0 THEN -1 ELSE PrimitiveTag + index
packProjectionIndex(index) == IF index < 0 THEN -1 ELSE ProjectionTag + index
\* rt.InvalidatesFlag
InvalidatesFlag == 1

\* ---------------------------------------------------------- hash tables
\* Object.keys(table)
Keys(table) == [i \in 1..Len(table) |-> table[i].hash]
\* _.has(table, hash)
HasHash(table, hash) == \E i \in 1..Len(table) : table[i].hash = hash
\* table[hash]
Stored(table, hash) ==
  table[CHOOSE i \in 1..Len(table) : table[i].hash = hash].value
\* hashes.indexOf(hash)
IndexOf(hashes, hash) ==
  IF \E i \in 1..Len(hashes) : hashes[i] = hash
    THEN (CHOOSE i \in 1..Len(hashes) :
            hashes[i] = hash /\ \A j \in 1..(i - 1) : hashes[j] # hash) - 1
    ELSE -1
\* if (!_.has(table, hash)) { table[hash] = value }
\* (Faulty variant: the value is not stored.)
InsertNothing(table, hash, value) == table
Insert(table, hash, value) ==
  IF HasHash(table, hash) THEN table
  ELSE Append(table, [hash |-> hash, value |-> value])

\* The three tables; collided is history: an insertion found its hash
\* present with another value stored.
EmptyTables ==
  [primitives |-> <<>>, metaData |-> <<>>, projections |-> <<>>,
   collided |-> FALSE]
Collides(table, hash, value) ==
  HasHash(table, hash) /\ Stored(table, hash) # value

\* addPrimitive(p)
addPrimitive(T, p) ==
  LET hash == exprHash(defaultTo(p, VmNull))
  IN  [tables |-> [T EXCEPT
                    !.primitives = Insert(@, hash, p),
                    !.collided = @ \/ Collides(T.primitives, hash, p)],
       hash |-> hash]

\* addMetaData(m)
addMetaData(T, m) ==
  LET mdHash == exprHash(m)
  IN  [tables |-> [T EXCEPT
                    !.metaData = Insert(@, mdHash, m),
                    !.collided = @ \/ Collides(T.metaData, mdHash, m)],
       hash |-> mdHash]

\* An IntermediateReference: {ref, table}; n is the ref of an inline integer.
IntRef(n) == [table |-> "ints", ref |-> "", n |-> n]
HashRef(table, hash) == [table |-> table, ref |-> hash, n |-> 0]

\* The metadata of a projection: {invalidates: true}? and {paths}; paths is
\* an array, which is truthy also when it is empty.
MetaData(invalidates, paths) == [invalidates |-> invalidates, paths |-> paths]

\* this.topLevelToIndex(name): the position of the getter of that name.
topLevelToIndex(getters, name) ==
  IndexOf([i \in 1..Len(getters) |-> VmString(getters[i].name)], name)

\* pathMatches(invalidatedPath, setter): the steps of the setter, a Token
\* standing for any key, match the steps of the path after its root, as far
\* as both go.
pathMatches(invalidatedPath, setterExpr) ==
  \A i \in 1..Len(setterExpr.steps) :
    i + 1 <= Len(invalidatedPath) =>
      \/ IsToken(setterExpr.steps[i])
      \/ setterExpr.steps[i] = invalidatedPath[i + 1]

\* The argsManipulators: get, and / or / ternary, range; the others leave
\* the arguments as they are.
argsManipulators(getters, e, args) ==
  CASE e.type = "get" ->
         <<ArgAt(args, 2),
           IF IsToken(ArgAt(args, 2)) /\ ArgAt(args, 2).type = "topLevel"
             THEN VmInt(topLevelToIndex(getters, ArgAt(args, 1)))
             ELSE ArgAt(args, 1)>>
    [] e.type \in {"and", "or", "ternary"} -> <<VmInt(e.id)>> \o args
    [] e.type = "range" ->
         <<ArgAt(args, 1), defaultTo(ArgAt(args, 2), VmInt(0)),
           defaultTo(ArgAt(args, 3), VmInt(1))>>
    [] OTHER -> args

\* The steps generateProjectionFromExpression keeps of an invalidated path;
\* <<>> when it discards the path.
\* (Faulty variant: no path is discarded.)
RetainedPathAlways(getters, setters, invalidatedPath) == invalidatedPath
RetainedPath(getters, setters, invalidatedPath) ==
  LET first == invalidatedPath[1]
  IN  IF TypeOf(first) = "context"
        THEN <<first, VmInt(0)>> \o Tail(invalidatedPath)
      ELSE IF Len(invalidatedPath) > 1 /\ TypeOf(first) = "topLevel"
        THEN <<first, VmInt(topLevelToIndex(getters, invalidatedPath[2]))>>
               \o SubSeq(invalidatedPath, 3, Len(invalidatedPath))
      ELSE IF \/ /\ Len(invalidatedPath) > 1
                 /\ IsExpression(first) /\ first.type = "get"
                 /\ TypeOf(ArgAt(first.args, 2)) = "topLevel"
              \/ /\ TypeOf(first) = "root"
                 /\ Len(invalidatedPath) > 1
                 /\ \E i \in 1..Len(setters) :
                      pathMatches(invalidatedPath, setters[i])
        THEN invalidatedPath
      ELSE <<>>

\* serializeProjection(expression) and generateProjectionFromExpression(
\* expression), with the tables they fill; P is the program: its getters
\* (this.getters, in the order of getRealGetters) and setters (this.setters).
RECURSIVE serializeProjection(_, _, _)
RECURSIVE generateProjectionFromExpression(_, _, _)
RECURSIVE serializeAll(_, _, _)
RECURSIVE serializePaths(_, _, _)

\* const x = value; body(x): the value is computed once, then the body.
With(value, body(_)) == CHOOSE r \in {body(x) : x \in {value}} : TRUE

\* expressions.map(serializeProjection)
serializeAll(P, T, expressions) ==
  IF expressions = <<>> THEN [tables |-> T, refs |-> <<>>]
  ELSE
    With(serializeProjection(P, T, Head(expressions)), LAMBDA first :
    With(serializeAll(P, first.tables, Tail(expressions)), LAMBDA rest :
      [tables |-> rest.tables, refs |-> <<first.ref>> \o rest.refs]))

\* pathsThatInvalidate.forEach((cond, invalidatedPath) => ...)
serializePaths(P, T, entries) ==
  IF entries = <<>> THEN [tables |-> T, paths |-> <<>>]
  ELSE
    With(serializeProjection(P, T, Head(entries).cond), LAMBDA condProj :
    With(RetainedPath(P.getters, P.setters, Head(entries).path),
         LAMBDA steps :
    With(serializeAll(P, condProj.tables, steps), LAMBDA path :
    With(serializePaths(P, path.tables, Tail(entries)), LAMBDA rest :
      [tables |-> rest.tables,
       paths |-> IF steps = <<>> THEN rest.paths
                 ELSE <<[cond |-> condProj.ref, path |-> path.refs]>>
                        \o rest.paths]))))

generateProjectionFromExpression(P, T, expression) ==
  With(IF IsExpression(expression) THEN expression.args ELSE <<>>,
       LAMBDA expressionArgs :
  With(serializePaths(P, T, expression.path), LAMBDA paths :
  With(addPrimitive(paths.tables, VmString(expression.type)), LAMBDA type :
  With(addMetaData(type.tables,
                   MetaData(expression.invalidates, paths.paths)),
       LAMBDA metaData :
  With(serializeAll(P, metaData.tables,
         argsManipulators(P.getters, expression, expressionArgs)),
       LAMBDA args :
    [tables |-> args.tables,
     projection |-> [type |-> type.hash, metaData |-> metaData.hash,
                     args |-> args.refs]])))))

serializeProjection(P, T, expression) ==
  IF expression.kind = "int" /\ canBeStoredInRef(expression.n)
    THEN [tables |-> T, ref |-> IntRef(expression.n)]
  ELSE IF expression.kind \in {"int", "prim"}
    THEN With(addPrimitive(T, expression), LAMBDA p :
           [tables |-> p.tables, ref |-> HashRef("primitives", p.hash)])
  ELSE
    With(exprHash(expression), LAMBDA hash :
      IF HasHash(T.projections, hash)
        THEN [tables |-> T, ref |-> HashRef("projections", hash)]
        ELSE With(generateProjectionFromExpression(P, T, expression),
                  LAMBDA g :
               [tables |-> [g.tables EXCEPT !.projections =
                              Insert(@, hash, g.projection)],
                ref |-> HashRef("projections", hash)]))

\* A setter: its type (setterType()), its name and its steps, the parts
\* that follow its first part.  numTokens: the Tokens of the setter, minus
\* one for its first part.
numTokens(setterExpr) ==
  Len(SelectSeq(setterExpr.steps, LAMBDA part : IsToken(part)))
\* A `key` Token becomes the Token arg<numTokens - 1>.
SetterStep(setterExpr, token) ==
  IF IsToken(token) /\ token.type = "key"
    THEN Token("arg" \o ToString(numTokens(setterExpr) - 1))
    ELSE token
\* serializeSetter(setter, name)
serializeSetter(P, T, setterExpr) ==
  With(serializeAll(P, T, [i \in 1..Len(setterExpr.steps) |->
                            SetterStep(setterExpr, setterExpr.steps[i])]),
       LAMBDA setterProjection :
  With(addPrimitive(setterProjection.tables, VmString(setterExpr.type)),
       LAMBDA type :
  With(addPrimitive(type.tables, VmString(setterExpr.name)), LAMBDA name :
    [tables |-> name.tables,
     setter |-> [type |-> type.hash, name |-> name.hash,
                 projection |-> setterProjection.refs,
                 numTokens |-> numTokens(setterExpr)]])))

\* ------------------------------------------------------------- programs
RootToken == Token("root")
TrueCond == VmPrim("true")
\* token.$path = new Map([[path, cond]])
WithPath(token, path) ==
  [token EXCEPT !.path = <<[cond |-> TrueCond, path |-> path]>>]
\* root.get('a'), untracked and tracked
GetA == Expression(Token("get"), <<VmString("a"), RootToken>>)
GetATracked ==
  Expression(WithPath(Token("get"), <<RootToken, VmString("a")>>),
             <<VmString("a"), RootToken>>)
\* topLevel.get('a'), tracked: the value of the getter a
GetTopLevelA ==
  Expression(WithPath(Token("get"), <<Token("topLevel"), VmString("a")>>),
             <<VmString("a"), Token("topLevel")>>)
\* context.get(0) inside a function, tracked
GetContext ==
  Expression(WithPath(Token("get"), <<Token("context")>>),
             <<VmInt(0), Token("context")>>)
\* range(3) and range(3, 0, 1)
RangeShort == Expression(Token("range"), <<VmInt(3)>>)
RangeLong == Expression(Token("range"), <<VmInt(3), VmInt(0), VmInt(1)>>)
\* root.get('a').eq(null) and root.get('a').eq(NaN)
EqNull == Expression(Token("eq"), <<GetA, VmNull>>)
EqNaN == Expression(Token("eq"), <<GetA, VmNaN>>)
\* root.get('a').or(0), untracked
OrZero == Expression(Token("or"), <<GetA, VmInt(0)>>)
\* root.get('a').map(val => val), a token that invalidates
MapA ==
  Expression([Token("map") EXCEPT !.invalidates = TRUE],
             <<Expression(Token("func"), <<Token("val")>>), GetATracked>>)
\* root.get('z'), tracked: no setter writes z
GetZTracked ==
  Expression(WithPath(Token("get"), <<RootToken, VmString("z")>>),
             <<VmString("z"), RootToken>>)
\* topLevel.get('a').get('b'), tracked: the root of the path is the
\* Expression topLevel.get('a')
GetTopLevelPlain ==
  Expression(Token("get"), <<VmString("a"), Token("topLevel")>>)
GetOfTopLevel ==
  Expression(WithPath(Token("get"), <<GetTopLevelPlain, VmString("b")>>),
             <<VmString("b"), GetTopLevelPlain>>)
\* val.get('x') inside a function, tracked
GetVal ==
  Expression(WithPath(Token("get"), <<Token("val"), VmString("x")>>),
             <<VmString("x"), Token("val")>>)
\* topLevel.get('a'), tracked by a path of the one step topLevel
GetTopLevelShort ==
  Expression(WithPath(Token("get"), <<Token("topLevel")>>),
             <<VmString("a"), Token("topLevel")>>)
GetterExpressions ==
  {GetA, GetATracked, GetTopLevelA, GetContext, RangeShort, RangeLong,
   EqNull, EqNaN, OrZero, MapA, GetZTracked, GetOfTopLevel, GetVal,
   GetTopLevelShort}
GetterNames == <<"a", "b", "c", "d">>
\* setter('a') and splice('a', key)
SetA == [type |-> "set", name |-> "setA", steps |-> <<VmString("a")>>]
SpliceA ==
  [type |-> "splice", name |-> "spliceA",
   steps |-> <<VmString("a"), Token("key")>>]
SetterLists == {<<>>, <<SetA>>, <<SetA, SpliceA>>}

\* What buildProjectionData returns; returned is history.
EmptyData ==
  [returned |-> FALSE, getters |-> <<>>, primitives |-> <<>>,
   topLevelNames |-> <<>>, topLevelProjections |-> <<>>, metaData |-> <<>>,
   paths |-> <<>>, setters |-> <<>>]

CompilerInit ==
  /\ \E n \in 1..MaxGetters :
       \E exprs \in [1..n -> GetterExpressions] :
         vmGetters = [i \in 1..n |->
                        [name |-> GetterNames[i], expr |-> exprs[i]]]
  /\ vmSetters \in SetterLists
  /\ vmTables = EmptyTables
  /\ vmTopLevels = <<>>
  /\ vmIntermediateSetters = <<>>
  /\ vmData = EmptyData
  /\ RuntimeUnused
  /\ LibraryUnused
  /\ LoopUnused
  /\ RangeUnused
  /\ CliUnused

Program == [getters |-> vmGetters, setters |-> vmSetters]

\* astGetters.map(name => ...): one getter; no name starts with '$'
serializeTopLevel ==
  /\ Len(vmTopLevels) < Len(vmGetters)
  /\ \E getter \in {vmGetters[Len(vmTopLevels) + 1]} :
     \E proj \in {serializeProjection(Program, vmTables, getter.expr)} :
     \E name \in {addPrimitive(proj.tables, VmString(getter.name))} :
       /\ vmTables' = name.tables
       /\ vmTopLevels' =
            Append(vmTopLevels, [name |-> name.hash, hash |-> proj.ref.ref])
  /\ UNCHANGED <<vmGetters, vmSetters, vmIntermediateSetters, vmData>>
  /\ UNCHANGED <<runtimeVars, libraryVars, loopVars, rangeVars, cliVars>>

\* _.map(this.setters, serializeSetter): one setter
serializeOneSetter ==
  /\ Len(vmTopLevels) = Len(vmGetters)
  /\ Len(vmIntermediateSetters) < Len(vmSetters)
  /\ \E s \in {serializeSetter(Program, vmTables,
                                vmSetters[Len(vmIntermediateSetters) + 1])} :
       /\ vmTables' = s.tables
       /\ vmIntermediateSetters' = Append(vmIntermediateSetters, s.setter)
  /\ UNCHANGED <<vmGetters, vmSetters, vmTopLevels, vmData>>
  /\ UNCHANGED <<runtimeVars, libraryVars, loopVars, rangeVars, cliVars>>

\* ---------------------------------------------------------------- packing
projectionHashes == Keys(vmTables.projections)
primitiveHashes == Keys(vmTables.primitives)
mdHashes == <<"">> \o Keys(vmTables.metaData)

packRef(r) ==
  CASE r.table = "ints" -> r.n
    [] r.table = "primitives" ->
         packPrimitiveIndex(IndexOf(primitiveHashes, r.ref))
    [] OTHER -> packProjectionIndex(IndexOf(projectionHashes, r.ref))
packRefs(refs) == [i \in 1..Len(refs) |-> packRef(refs[i])]

packProjection(p) ==
  <<IndexOf(primitiveHashes, p.type),
    IF p.metaData # "" THEN IndexOf(mdHashes, p.metaData) ELSE 0>>
    \o packRefs(p.args)

\* The argument of addPath: [packRef(cond), ...path.map(packRef)]
PackedPath(entry) == <<packRef(entry.cond)>> \o packRefs(entry.path)
\* The paths packMetaData passes to addPath, metadata after metadata.
RECURSIVE PackedPathsFrom(_)
PackedPathsFrom(i) ==
  IF i > Len(vmTables.metaData) THEN <<>>
  ELSE LET md == vmTables.metaData[i].value
       IN  [j \in 1..Len(md.paths) |-> PackedPath(md.paths[j])]
             \o PackedPathsFrom(i + 1)
\* addPath(path) for each of them
RECURSIVE addPaths(_, _)
addPaths(table, paths) ==
  IF paths = <<>> THEN table
  ELSE addPaths(Insert(table, exprHash(Head(paths)), Head(paths)), Tail(paths))
pathByHash == addPaths(<<>>, PackedPathsFrom(1))
pathHashes == Keys(pathByHash)

\* packMetaData(md), then paths.map(hash => pathHashes.indexOf(hash))
packMetaData(md) ==
  <<IF md.invalidates THEN InvalidatesFlag ELSE 0>>
    \o [j \in 1..Len(md.paths) |->
          IndexOf(pathHashes, exprHash(PackedPath(md.paths[j])))]
metaData ==
  [index \in 1..Len(mdHashes) |->
     IF index = 1 THEN <<0>>
     ELSE packMetaData(Stored(vmTables.metaData, mdHashes[index]))]

packSetter(s) ==
  <<IndexOf(primitiveHashes, s.type), IndexOf(primitiveHashes, s.name),
    s.numTokens>> \o packRefs(s.projection)

\* The rest of buildProjectionData, from projectionHashes to the return.
pack ==
  /\ Len(vmTopLevels) = Len(vmGetters)
  /\ Len(vmIntermediateSetters) = Len(vmSetters)
  /\ ~vmData.returned
  /\ vmData' =
       [returned |-> TRUE,
        getters |-> [i \in 1..Len(projectionHashes) |->
                       packProjection(Stored(vmTables.projections,
                                             projectionHashes[i]))],
        primitives |-> [i \in 1..Len(primitiveHashes) |->
                          Stored(vmTables.primitives, primitiveHashes[i])],
        topLevelNames |-> [i \in 1..Len(vmTopLevels) |->
                             IndexOf(primitiveHashes, vmTopLevels[i].name)],
        topLevelProjections |-> [i \in 1..Len(vmTopLevels) |->
                                   IndexOf(projectionHashes,
                                           vmTopLevels[i].hash)],
        metaData |-> metaData,
        paths |-> [i \in 1..Len(pathHashes) |->
                     Stored(pathByHash, pathHashes[i])],
        setters |-> [i \in 1..Len(vmIntermediateSetters) |->
                       packSetter(vmIntermediateSetters[i])]]
  /\ UNCHANGED <<vmGetters, vmSetters, vmTables, vmTopLevels,
                 vmIntermediateSetters>>
  /\ UNCHANGED <<runtimeVars, libraryVars, loopVars, rangeVars, cliVars>>

CompilerNext == serializeTopLevel \/ serializeOneSetter \/ pack
CompilerSpec == CompilerInit /\ [][CompilerNext]_vars

\* ------------------------------------------------- claims on the compiler
\* The metadata record of the i-th projection, as addMetaData stored it.
MetaDataOf(i) ==
  Stored(vmTables.metaData, vmTables.projections[i].value.metaData)
\* No invalidation contribution: no invalidates flag, no retained path.
NoContribution(i) ==
  ~MetaDataOf(i).invalidates /\ MetaDataOf(i).paths = <<>>

\* C17: in the ProjectionData returned, metaData[0] is the sentinel (0, [])
\* and every projection without an invalidation contribution carries the
\* metadata index 0 in its packed getter.
C17_SentinelForNoContribution ==
  vmData.returned =>
    /\ vmData.metaData[1] = <<0>>
    /\ \A i \in 1..Len(vmData.getters) :
         NoContribution(i) => vmData.getters[i][2] = 0

\* An index into a packed table of the given length.
ValidIndex(index, length) == index >= 0 /\ index < length
\* A packed ref: an inline integer, or a tagged index of an existing slot.
ValidRef(r) ==
  \/ r >= 0 /\ r < InlineCeiling
  \/ /\ r >= PrimitiveTag /\ r < ProjectionTag
     /\ ValidIndex(r - PrimitiveTag, Len(vmData.primitives))
  \/ /\ r >= ProjectionTag
     /\ ValidIndex(r - ProjectionTag, Len(vmData.getters))
ValidRefsFrom(packed, k) == \A j \in k..Len(packed) : ValidRef(packed[j])

\* C18: in the ProjectionData returned, every reference in getters,
\* metaData, setters and paths is an inline integer or the index of an
\* existing slot of its table: no indexOf lookup of the packing gave -1,
\* every primitive and projection index is below the length of primitives
\* and getters, and every path index in metaData is below the length of
\* paths.
C18_ReferencesValid ==
  vmData.returned =>
    /\ \A i \in 1..Len(vmData.getters) :
         /\ ValidIndex(vmData.getters[i][1], Len(vmData.primitives))
         /\ ValidIndex(vmData.getters[i][2], Len(vmData.metaData))
         /\ ValidRefsFrom(vmData.getters[i], 3)
    /\ \A i \in 1..Len(vmData.metaData) :
         \A j \in 2..Len(vmData.metaData[i]) :
           ValidIndex(vmData.metaData[i][j], Len(vmData.paths))
    /\ \A i \in 1..Len(vmData.setters) :
         /\ ValidIndex(vmData.setters[i][1], Len(vmData.primitives))
         /\ ValidIndex(vmData.setters[i][2], Len(vmData.primitives))
         /\ ValidRefsFrom(vmData.setters[i], 4)
    /\ \A i \in 1..Len(vmData.paths) : ValidRefsFrom(vmData.paths[i], 1)
    /\ \A i \in 1..Len(vmData.topLevelProjections) :
         /\ ValidIndex(vmData.topLevelProjections[i], Len(vmData.getters))
         /\ ValidIndex(vmData.topLevelNames[i], Len(vmData.primitives))

\* A program with a setter and two getters was packed: a metadata record
\* refers to a path, a path and a getter hold refs to projections and to
\* primitives, and a primitive is stored that is no inline integer (-1).
C18_Witness ==
  /\ vmData.returned
  /\ Len(vmData.setters) = 2
  /\ Len(vmGetters) = 2
  /\ \E i \in 1..Len(vmData.metaData) : Len(vmData.metaData[i]) > 1
  /\ \E i \in 1..Len(vmData.paths) :
       \E j, k \in 1..Len(vmData.paths[i]) :
         /\ vmData.paths[i][j] >= ProjectionTag
         /\ vmData.paths[i][k] >= PrimitiveTag
         /\ vmData.paths[i][k] < ProjectionTag
  /\ \E i \in 1..Len(vmData.primitives) : vmData.primitives[i] = VmInt(-1)

\* C19: when a value is inserted into a table under a hash that is present
\* with a different value stored, the insertion fails with IntegrityError:
\* buildProjectionData then returns no ProjectionData.
C19_CollisionFails == vmTables.collided => ~vmData.returned

\* C20: no two entries of getters are the same (type, metadata, args)
\* tuple, also for expressions that differ only before their arguments are
\* normalized, such as range(n) and range(n, 0, 1).
C20_NoDuplicateGetters ==
  vmData.returned =>
    \A i, j \in 1..Len(vmData.getters) :
      i < j => vmData.getters[i] # vmData.getters[j]

\* The expression and its sub-expressions.
RECURSIVE SubExpressions(_)
SubExpressions(e) ==
  {e} \cup UNION {SubExpressions(e.args[i]) : i \in 1..Len(e.args)}
\* The Tokens and Expressions of the program whose projection is generated.
GeneratedNodes ==
  {x \in UNION {SubExpressions(vmGetters[i].expr) : i \in 1..Len(vmGetters)} :
     /\ x.kind \in {"token", "expr"}
     /\ HasHash(vmTables.projections, exprHash(x))}
\* The metadata record stored for the projection of x.
MetaDataOfNode(x) ==
  Stored(vmTables.metaData,
         Stored(vmTables.projections, exprHash(x)).metaData)
\* The (condition, path) pair is in the metadata of x: a retained path
\* starts with the ref of the root of the invalidated path.  (The pairs of
\* one token have different roots.)
RetainedIn(x, entry) ==
  \E j \in 1..Len(MetaDataOfNode(x).paths) :
    MetaDataOfNode(x).paths[j].path[1] =
      HashRef("projections", exprHash(entry.path[1]))
MatchedBySetter(path) ==
  \E i \in 1..Len(vmSetters) : pathMatches(path, vmSetters[i])

\* C21 as stated: a path is retained only if its root is context, or
\* topLevel, or root with a registered setter that matches the path; a
\* root path no setter matches and a path with any other root is discarded.
C21_RetainedOnlyForKnownRoots ==
  \A x \in GeneratedNodes :
    \A k \in 1..Len(x.path) :
      RetainedIn(x, x.path[k]) =>
        \/ TypeOf(x.path[k].path[1]) \in {"context", "topLevel"}
        \/ /\ TypeOf(x.path[k].path[1]) = "root"
           /\ MatchedBySetter(x.path[k].path)

\* The root of the path is the Expression topLevel.get(...).
GetOfTopLevelRoot(path) ==
  /\ IsExpression(path[1])
  /\ path[1].type = "get"
  /\ TypeOf(ArgAt(path[1].args, 2)) = "topLevel"

\* C21, amended: a path is retained exactly when its root is context, or
\* it has more than one step and its root is topLevel, the Expression
\* topLevel.get(...), or root with a registered setter that matches the
\* path; every other path is discarded.
C21_RetainedExactly ==
  \A x \in GeneratedNodes :
    \A k \in 1..Len(x.path) :
      RetainedIn(x, x.path[k]) <=>
        \/ TypeOf(x.path[k].path[1]) = "context"
        \/ /\ Len(x.path[k].path) > 1
           /\ \/ TypeOf(x.path[k].path[1]) = "topLevel"
              \/ GetOfTopLevelRoot(x.path[k].path)
              \/ /\ TypeOf(x.path[k].path[1]) = "root"
                 /\ MatchedBySetter(x.path[k].path)

\* The projections of a program with registered setters were generated:
\* the path with the root topLevel.get('a') is retained, the root path no
\* setter matches is discarded.
C21_Witness ==
  /\ vmSetters # <<>>
  /\ {GetOfTopLevel, GetZTracked} \subseteq GeneratedNodes
  /\ RetainedIn(GetOfTopLevel, GetOfTopLevel.path[1])
  /\ ~RetainedIn(GetZTracked, GetZTracked.path[1])

(***************************************************************************)
(* The library function range(end, start = 0, step = 1): one call, its     *)
(* loop executed one iteration at a time.  An argument is an integer or is *)
(* missing (undefined), in which case the parameter takes its default.     *)
(***************************************************************************)
\* ---------------------------------------------------------------- bounds
\* The arguments of range are integers from -MaxRange to MaxRange.
MaxRange == 3

RangeIntegers == (0 - MaxRange)..MaxRange
\* An argument that is given, and the argument that is missing.
Given(n) == [given |-> TRUE, n |-> n]
Missing == [given |-> FALSE, n |-> 0]
RangeArguments == {Given(n) : n \in RangeIntegers} \cup {Missing}
\* A parameter with a default value: the default replaces undefined.
ParameterOr(argument, default) ==
  IF argument.given THEN argument.n ELSE default

RangeInit ==
  /\ rangeArgs \in [end : RangeIntegers, start : RangeArguments,
                     step : RangeArguments]
  /\ rangeStart = 0
  /\ rangeStep = 0
  /\ rangeVal = 0
  /\ rangeRes = <<>>
  /\ rangePc = "call"
  /\ RuntimeUnused
  /\ LibraryUnused
  /\ LoopUnused
  /\ CompilerUnused
  /\ CliUnused

\* function range(end, start = 0, step = 1) { var res = []; var val = start
rangeCall ==
  /\ rangePc = "call"
  /\ rangeStart' = ParameterOr(rangeArgs.start, 0)
  /\ rangeStep' = ParameterOr(rangeArgs.step, 1)
  /\ rangeVal' = ParameterOr(rangeArgs.start, 0)
  /\ rangeRes' = <<>>
  /\ rangePc' = "loop"
  /\ UNCHANGED rangeArgs
  /\ UNCHANGED <<runtimeVars, libraryVars, loopVars, compilerVars, cliVars>>

\* (step > 0 && val < end) || (step < 0 && val > end)
\* (Faulty variant: the value end itself is still in the range.)
RangeContinuesAtEnd(val, end, step) ==
  (step > 0 /\ val <= end) \/ (step < 0 /\ val >= end)
RangeContinues(val, end, step) ==
  (step > 0 /\ val < end) \/ (step < 0 /\ val > end)

\* res.push(val); val += step
rangeLoop ==
  /\ rangePc = "loop"
  /\ RangeContinues(rangeVal, rangeArgs.end, rangeStep)
  /\ rangeRes' = Append(rangeRes, rangeVal)
  /\ rangeVal' = rangeVal + rangeStep
  /\ UNCHANGED <<rangeArgs, rangeStart, rangeStep, rangePc>>
  /\ UNCHANGED <<runtimeVars, libraryVars, loopVars, compilerVars, cliVars>>

\* return res
rangeReturn ==
  /\ rangePc = "loop"
  /\ ~RangeContinues(rangeVal, rangeArgs.end, rangeStep)
  /\ rangePc' = "done"
  /\ UNCHANGED <<rangeArgs, rangeStart, rangeStep, rangeVal, rangeRes>>
  /\ UNCHANGED <<runtimeVars, libraryVars, loopVars, compilerVars, cliVars>>

RangeNext == rangeCall \/ rangeLoop \/ rangeReturn
RangeSpec == RangeInit /\ [][RangeNext]_vars
\* The body of a function runs on: JavaScript executes the next statement.
FairRangeSpec == RangeSpec /\ WF_vars(RangeNext)

\* ---------------------------------------------------- the claim on range
\* The distance from start to end and from 0 to step.
Distance(a, b) == IF a >= b THEN a - b ELSE b - a
\* The progression start, start + step, start + 2 * step, ... as far as its
\* values are strictly before end in the direction of step; empty when step
\* is 0 or points away from end.
Progression(end, start, step) ==
  LET before(v) == (step > 0 /\ v < end) \/ (step < 0 /\ v > end)
      count == Cardinality({k \in 0..Distance(start, end) :
                             before(start + k * step)})
  IN  [i \in 1..count |-> start + (i - 1) * step]

\* C22: range(end, start, step) terminates for every integer end, start
\* and step, a missing start is 0 and a missing step 1, and the result is
\* start, start + step, start + 2 * step, ... restricted to the values
\* strictly before end in the direction of step (none when step is 0 or
\* points away from end).
C22_RangeTerminatesWithProgression ==
  <>[](/\ rangePc = "done"
       /\ rangeRes = Progression(rangeArgs.end,
                                 ParameterOr(rangeArgs.start, 0),
                                 ParameterOr(rangeArgs.step, 1)))

\* range(3, <missing>, <missing>) returned <<0, 1, 2>>.
C22_Witness ==
  /\ rangePc = "done"
  /\ rangeArgs = [end |-> 3, start |-> Missing, step |-> Missing]
  /\ rangeRes = <<0, 1, 2>>

(***************************************************************************)
(* The runtime envelope when user code throws and when batches are nested. *)
(* The template has no try, catch or finally: an exception thrown by a     *)
(* setter's func, by a listener or by the function given to $runInBatch    *)
(* unwinds every frame of the instance up to the user, and the rest of     *)
(* each function it passes through is not executed.  $inBatch is one       *)
(* boolean: there is no count of the batches that are open.                *)
(***************************************************************************)
\* ---------------------------------------------------------------- bounds
\* $runInBatch calls in progress inside the function of a $runInBatch call.
MaxNesting == 1

\* The instance is constructed on a model whose a is 1; every setA call sets
\* a number other than 0, so spliceA throws whenever it is run.
ErrorModel == [a |-> 1]
ErrorCalls == SetterCalls \cup ThrowingCalls

ErrorInit ==
  /\ model = ErrorModel
  /\ res = [double |-> 0]
  /\ listeners = <<>>
  /\ inBatch = FALSE
  /\ batchPending = <<>>
  /\ inRecalculate = FALSE
  /\ batchingStrategy = "none"
  /\ stack = <<Frame("$NAME", "recalculate")>>
  /\ deferred = 0
  /\ issued = <<>>
  /\ applied = <<>>
  /\ notified = NoneNotified
  /\ strategyCalls = 0
  /\ rib = NoRib
  /\ OthersUnused

\* The exception reaches the user: no frame of the instance is left, and
\* nothing else is changed on the way.
Unwind ==
  /\ stack' = <<>>
  /\ notified' = NoneNotified
  /\ rib' = NoRib

\* $setter, direct branch: func.apply($res, args) throws; recalculate() is
\* not reached.
setterThrows ==
  /\ Running("$setter", "start")
  /\ ~ShouldQueue
  /\ Throws(Top.call, model)
  /\ Unwind
  /\ UNCHANGED otherVars
  /\ UNCHANGED <<model, res, listeners, inBatch, batchPending, inRecalculate,
                 batchingStrategy, deferred, issued, applied, strategyCalls>>

\* $endBatch: $inBatch = false, then a func.apply of the forEach throws: the
\* calls before it have been applied; $batchPending = [] and recalculate()
\* are not reached.  (The history of applications is kept finite: a queue is
\* not drained again once more than MaxCalls applications are recorded.)
endBatchThrows ==
  /\ Running("$endBatch", "start")
  /\ EndBatchDrains
  /\ Len(applied) <= MaxCalls
  /\ DrainThrows(DrainOrder(batchPending), model)
  /\ inBatch' = FALSE
  /\ strategyCalls' = 0
  /\ \E done \in {DrainedBeforeThrow(DrainOrder(batchPending), model)} :
       /\ model' = ApplyAll(done, model)
       /\ applied' = applied \o Ids(done)
  /\ Unwind
  /\ UNCHANGED otherVars
  /\ UNCHANGED <<res, listeners, batchPending, inRecalculate,
                 batchingStrategy, deferred, issued>>

\* A listener throws: the forEach of recalculate stops, $inRecalculate =
\* false is not reached.
listenerThrows ==
  /\ Running("listener", "body")
  /\ Unwind
  /\ UNCHANGED otherVars
  /\ UNCHANGED <<model, res, listeners, inBatch, batchPending, inRecalculate,
                 batchingStrategy, deferred, issued, applied, strategyCalls>>

\* The function given to $runInBatch throws: $res.$endBatch() is not reached.
funcThrows ==
  /\ Running("func", "body")
  /\ Unwind
  /\ UNCHANGED otherVars
  /\ UNCHANGED <<model, res, listeners, inBatch, batchPending, inRecalculate,
                 batchingStrategy, deferred, issued, applied, strategyCalls>>

\* The $runInBatch calls in progress.
Nesting ==
  Cardinality({k \in 1..Len(stack) : stack[k].fn = "$runInBatch"})

\* The function given to $runInBatch calls $runInBatch itself,
funcRunInBatch ==
  /\ Running("func", "body")
  /\ Nesting <= MaxNesting
  /\ stack' = Append(stack, Frame("$runInBatch", "start"))
  /\ UNCHANGED otherVars
  /\ UNCHANGED <<model, res, listeners, inBatch, batchPending, inRecalculate,
                 batchingStrategy, deferred, issued, applied, notified,
                 strategyCalls, rib>>

\* ... or $startBatch (mark, in the frame of the function, records that it
\* has a batch of its own open),
funcStartBatch ==
  /\ Running("func", "body")
  /\ Top.mark = 0
  /\ inBatch' = TRUE
  /\ stack' = ReplaceTop([Top EXCEPT !.mark = 1])
  /\ UNCHANGED otherVars
  /\ UNCHANGED <<model, res, listeners, batchPending, inRecalculate,
                 batchingStrategy, deferred, issued, applied, notified,
                 strategyCalls, rib>>

\* ... and $endBatch for the batch it opened.
funcEndBatch ==
  /\ Running("func", "body")
  /\ Top.mark = 1
  /\ stack' = Append(ReplaceTop([Top EXCEPT !.mark = 0]),
                     Frame("$endBatch", "start"))
  /\ UNCHANGED otherVars
  /\ UNCHANGED <<model, res, listeners, inBatch, batchPending, inRecalculate,
                 batchingStrategy, deferred, issued, applied, notified,
                 strategyCalls, rib>>

ErrorNext ==
  \/ Construct
  \/ ConstructReturn
  \/ recalculateStart
  \/ recalculateNotify
  \/ recalculateExit
  \/ recalculateReturn
  \/ setter
  \/ setterThrows
  \/ setterReturn
  \/ endBatch
  \/ endBatchThrows
  \/ endBatchReturn
  \/ runInBatch
  \/ runInBatchEnd
  \/ runInBatchReturn
  \/ \E c \in ErrorCalls : funcSetter(c)
  \/ funcRunInBatch
  \/ funcStartBatch
  \/ funcEndBatch
  \/ funcThrows
  \/ funcReturn
  \/ \E c \in ErrorCalls : listenerSetter(c)
  \/ listenerStartBatch
  \/ listenerEndBatch
  \/ listenerThrows
  \/ listenerReturn
  \/ \E c \in ErrorCalls : userSetter(c)
  \/ userStartBatch
  \/ userEndBatch
  \/ userRunInBatch
  \/ \E l \in Listeners : addListener(l)
  \/ \E l \in Listeners : removeListener(l)

ErrorSpec == ErrorInit /\ [][ErrorNext]_vars

\* In ErrorSpec $model.a is always a number other than 0.
ErrorModelIsTruthy == model.a # 0

\* C23: every setter call placed in batchPending is applied at most once,
\* also when a queued setter throws during the drain of $endBatch and
\* $endBatch, or a later setter, is called again: no call is applied twice.
C23_AppliedAtMostOnce ==
  \A i, j \in 1..Len(applied) : applied[i] = applied[j] => i = j

\* C24: whenever the instance is Idle and none of its operations is in
\* progress, batchPending is empty.
C24_IdleAtRestQueueEmpty ==
  (AtRest /\ Idle) => batchPending = <<>>

\* C25: when a listener throws during recalculate, the error reaches the
\* caller and the instance is left with inRecalculate = false: once no code
\* of the instance runs inRecalculate is false, and a setter call the user
\* then makes outside a batch is applied at once.
C25_NotRecalculatingAfterThrow ==
  /\ [](AtRest => ~inRecalculate)
  /\ [][(Running("$setter", "start") /\ Len(stack) = 1 /\ ~inBatch
           /\ ~Throws(Top.call, model))
          => applied' = Append(applied, Top.call.id)]_vars

\* C26: $runInBatch(f) is scoped: when it is left, whether f returned or
\* threw, inBatch is false again and every call f issued has been applied
\* (no listener is registered, so f alone issues calls).
C26_RunInBatchScoped ==
  [][(rib.active /\ listeners = <<>> /\ stack # <<>> /\ stack' = <<>>)
       => /\ ~inBatch'
          /\ \A i \in (rib.from + 1)..Len(issued') :
               i \in SeqToSet(applied')]_vars

\* C27: batches nest: while the function of a $runInBatch called from Idle
\* runs, whatever batches it opens and closes itself, no call it issued is
\* applied and no listener is called; when the outermost $runInBatch is
\* about to return every listener has been called exactly once.
C27_BatchesNest ==
  /\ (rib.active /\ rib.idle /\ Len(stack) >= 2
        /\ stack[1].fn = "$runInBatch" /\ stack[2].fn = "func")
       => /\ \A i \in (rib.from + 1)..Len(issued) : i \notin AppliedIds
          /\ notified = NoneNotified
  /\ (Len(stack) = 1 /\ Running("$runInBatch", "return") /\ rib.idle
        /\ Len(issued) > rib.from /\ ~rib.listenerCalled)
       => \A l \in SeqToSet(listeners) : notified[l] = 1

(***************************************************************************)
(* The command line tool: run() executed several times on one source with  *)
(* one set of options; the source and its dependencies do not change       *)
(* between the runs.  A piece of code is a string or a buffer; what is     *)
(* recorded of it is how many "istanbul ignore file" headers it starts     *)
(* with and whether wrapModule produced it.                                *)
(***************************************************************************)
\* ---------------------------------------------------------------- bounds
\* Runs of the command line tool.
MaxRuns == 3

CliOptionSets == [noCache : BOOLEAN, noCoverage : BOOLEAN,
                  compiler : {"optimizing", "bytecode"},
                  format : {"iife", "binary"}]

\* carmi.compile(model, options): a text for the JavaScript compilers, a
\* buffer for the bytecode compiler.
compile(options) ==
  [string |-> options.compiler # "bytecode", headers |-> 0, wrapped |-> FALSE]

\* typeof code === 'string'
IsString(code) == code.string

\* if (options['no-coverage'] && typeof code === 'string')
\*   code = `/* istanbul ignore file */ ${code}`
IgnoreFile(options, code) ==
  IF options.noCoverage /\ IsString(code)
    THEN [code EXCEPT !.headers = @ + 1]
    ELSE code

\* wrapModule(format, `require(...)('${base64ArrayBuffer.encode(code)}')`,
\* name): a module text around the encoded buffer.
wrapModule(code) == [string |-> TRUE, headers |-> 0, wrapped |-> TRUE]

\* The cache file: absent, or written for an earlier version of the source
\* (older than a dependency), or written by a run.
NoCacheFile == [exists |-> FALSE, fresh |-> FALSE, content |-> "-"]
StaleCacheFile(options) ==
  [exists |-> TRUE, fresh |-> FALSE, content |-> compile(options)]
WrittenCacheFile(code) == [exists |-> TRUE, fresh |-> TRUE, content |-> code]

\* isUpToDate(dependencies, cacheFilePath): the cache file is newer than
\* every dependency; the dependencies are not touched between the runs.
isUpToDate(cache) == cache.fresh

CliInit ==
  /\ cliOptions \in CliOptionSets
  /\ cliCache \in {NoCacheFile, StaleCacheFile(cliOptions)}
  /\ cliCode = "-"
  /\ cliPc = "load"
  /\ cliOutputs = <<>>
  /\ cliWrites = <<>>
  /\ RuntimeUnused
  /\ LibraryUnused
  /\ LoopUnused
  /\ CompilerUnused
  /\ RangeUnused

\* if (!options['no-cache'] && fs.existsSync(cacheFilePath) &&
\*     isUpToDate(dependencies, cacheFilePath))
\*   code = await fs.readFile(cacheFilePath, encoding)
\* else code = carmi.compile(model, options)
cliLoad ==
  /\ cliPc = "load"
  /\ Len(cliOutputs) < MaxRuns
  /\ cliCode' = IF ~cliOptions.noCache /\ cliCache.exists
                     /\ isUpToDate(cliCache)
                  THEN cliCache.content
                  ELSE compile(cliOptions)
  /\ cliPc' = "header"
  /\ UNCHANGED <<cliOptions, cliCache, cliOutputs, cliWrites>>
  /\ UNCHANGED <<runtimeVars, libraryVars, loopVars, compilerVars, rangeVars>>

\* The first no-coverage header.
cliHeader ==
  /\ cliPc = "header"
  /\ cliCode' = IgnoreFile(cliOptions, cliCode)
  /\ cliPc' = "cache"
  /\ UNCHANGED <<cliOptions, cliCache, cliOutputs, cliWrites>>
  /\ UNCHANGED <<runtimeVars, libraryVars, loopVars, compilerVars, rangeVars>>

\* if (!options['no-cache']) await fs.outputFile(cacheFilePath, code, encoding)
cliWriteCache ==
  /\ cliPc = "cache"
  /\ IF ~cliOptions.noCache
       THEN /\ cliCache' = WrittenCacheFile(cliCode)
            /\ cliWrites' = Append(cliWrites, cliCode)
       ELSE UNCHANGED <<cliCache, cliWrites>>
  /\ cliPc' = "wrap"
  /\ UNCHANGED <<cliOptions, cliCode, cliOutputs>>
  /\ UNCHANGED <<runtimeVars, libraryVars, loopVars, compilerVars, rangeVars>>

\* if (typeof code !== 'string' && options.format !== 'binary')
\*   code = wrapModule(...)
cliWrap ==
  /\ cliPc = "wrap"
  /\ cliCode' = IF ~IsString(cliCode) /\ cliOptions.format # "binary"
                  THEN wrapModule(cliCode)
                  ELSE cliCode
  /\ cliPc' = "header2"
  /\ UNCHANGED <<cliOptions, cliCache, cliOutputs, cliWrites>>
  /\ UNCHANGED <<runtimeVars, libraryVars, loopVars, compilerVars, rangeVars>>

\* The second no-coverage header.
cliHeaderAgain ==
  /\ cliPc = "header2"
  /\ cliCode' = IgnoreFile(cliOptions, cliCode)
  /\ cliPc' = "output"
  /\ UNCHANGED <<cliOptions, cliCache, cliOutputs, cliWrites>>
  /\ UNCHANGED <<runtimeVars, libraryVars, loopVars, compilerVars, rangeVars>>

\* fs.outputFile(options.output, code) or console.log(code); the next run
\* starts from the files this one left.
cliOutput ==
  /\ cliPc = "output"
  /\ cliOutputs' = Append(cliOutputs, cliCode)
  /\ cliPc' = "load"
  /\ UNCHANGED <<cliOptions, cliCache, cliCode, cliWrites>>
  /\ UNCHANGED <<runtimeVars, libraryVars, loopVars, compilerVars, rangeVars>>

CliNext ==
  \/ cliLoad
  \/ cliHeader
  \/ cliWriteCache
  \/ cliWrap
  \/ cliHeaderAgain
  \/ cliOutput

CliSpec == CliInit /\ [][CliNext]_vars

\* C28: the cache of the command line tool is transparent: with unchanged
\* source, dependencies and options, no-coverage included, every run writes
\* the same output, and every run that writes the cache file writes the same
\* content to it.
C28_CacheTransparent ==
  /\ \A i, j \in 1..Len(cliOutputs) : cliOutputs[i] = cliOutputs[j]
  /\ \A i, j \in 1..Len(cliWrites) : cliWrites[i] = cliWrites[j]

\* Without no-coverage, and for the bytecode compiler, the runs do agree.
CacheTransparentOtherwise ==
  (~cliOptions.noCoverage \/ cliOptions.compiler = "bytecode")
     => C28_CacheTransparent

====
